---- MODULE Spec2Model ----
(***************************************************************************)
(* The simulation core of zapzap (crates/zapzap): Rng, Tile/Grid,          *)
(* GameBoard (connectivity flood fill, tile generation, gravity), and the  *)
(* GameState phase machine driven by tick / queue_tap / toggle_arm.        *)
(*                                                                         *)
(* Conventions.  A u64 is the tuple of its 8 bytes, least significant      *)
(* first.  A Vec is a sequence, Vec index k at sequence index k+1.  Seconds  *)
(* (f32) are integer milliseconds.  Option::None is Nil where Some holds a   *)
(* name, None (Some(v) is <<v>>, a tuple itself) where it holds a tuple or  *)
(* a struct, and EmptyCell for a grid cell.                                *)
(***************************************************************************)
EXTENDS Integers, Sequences, FiniteSets, TLC

VARIABLES
    board,          \* GameBoard (record, see NewBoard)
    pre,            \* the board as it was before the last board operation
    last,           \* the last call made and what it returned
    edits,          \* number of Grid::set calls made on the board so far
    rng_a, rng_b,   \* two independently constructed Rng instances
    out_a, out_b,   \* their next_int history: sequences of <<bound, value>>
    one_tile,       \* a Tile on its own: its connections byte, the byte it
                    \* was made with and the rotate calls made on it
    timers,         \* two instances (a, b) of one timer made alike: each with
                    \* its state (t), the dt handed to its ticks so far (fed)
                    \* and whether a tick has reported it complete (done)
    \* GameState, field by field (its board is the variable board)
    phase, mode, left_score, right_score, bot_enabled, bot_delay_timer,
    anims, effects, bonuses, power_left, power_right,
    pending_bonus, pending_bomb_params,
    sound_events, score_popups, pending_tap,
    render_buffer,
    calls,          \* number of tick calls and of input calls made so far
    held,           \* dt handed to the ticks that began in the current freeze
    waited          \* dt handed to the ticks that began in WaitingForInput:
                    \* in all (now) and up to the last bot move (at_move)

boardVars == <<board, pre, edits>>
rngVars   == <<rng_a, rng_b, out_a, out_b>>
gameVars  == <<phase, mode, left_score, right_score, bot_enabled, bot_delay_timer,
               anims, effects, bonuses, power_left, power_right,
               pending_bonus, pending_bomb_params,
               sound_events, score_popups, pending_tap, render_buffer,
               calls, held, waited>>
vars      == <<board, pre, last, edits, rng_a, rng_b, out_a, out_b, one_tile, timers, gameVars>>

Nil == "nil"
None == <<>>
Some(v) == <<v>>

\* TLC hands an operator its arguments unevaluated; a recursion guarded by
\* Evaluated(v) computes v before it descends, which keeps the evaluation
\* stack as shallow as the loop it stands for
Evaluated(v) == v = v

\* `let v = ...;` followed by Body: v is computed, then Body is
With(v, Body(_)) == IF Evaluated(v) THEN Body(v) ELSE Body(v)

(***************************************************************************)
(* Bounds of the model.                                                    *)
(***************************************************************************)
MaxSeed   == 3      \* seeds 0..MaxSeed
MaxWidth  == 3      \* board widths 1..MaxWidth
MaxHeight == 2      \* board heights 1..MaxHeight
MaxEdits  == 1      \* Grid::set calls per board
MaxDraws  == 3      \* next_int calls per Rng instance
GameWidth  == 3     \* board width of a game (DEFAULT_WIDTH is 12)
GameHeight == 2     \* board height of a game (DEFAULT_HEIGHT is 10)
MaxTicks   == 4     \* tick calls per game, the frames of a fall aside
MaxShortTicks == 1  \* of which frames shorter than a rotation
MaxInputs  == 2     \* queue_tap, toggle_arm and enable_bot calls per game
MaxTurns   == 4     \* rotate calls on one Tile
MaxFallWidth  == 2  \* boards that tiles are removed from
MaxFallHeight == 3
MaxFed     == 1000  \* milliseconds handed to the ticks of one timer

Seeds      == 0 .. MaxSeed
DrawBounds == {1, 13, 15, 1000}   \* upper bounds the program passes to next_int

(***************************************************************************)
(* u64 arithmetic on byte tuples (little endian).                          *)
(***************************************************************************)
Bytes == 0 .. 255

\* a ^ b on bytes, bit by bit
XorByte(a, b) ==
    LET x(k) == (((a \div k) + (b \div k)) % 2) * k
    IN  x(1) + x(2) + x(4) + x(8) + x(16) + x(32) + x(64) + x(128)

\* the same, tabulated once: Xor[a][b] = a ^ b
Xor == [a \in Bytes |-> [b \in Bytes |-> XorByte(a, b)]]

\* a byte of x << 13 (13 = 8 + 5), x << 17 (17 = 16 + 1) and x >> 7, tabulated:
\* the low bits of the byte hi above the high bits of the byte lo next below it
Shl5 == [hi \in Bytes |-> [lo \in Bytes |-> ((hi * 32) % 256) + (lo \div 8)]]
Shl1 == [hi \in Bytes |-> [lo \in Bytes |-> ((hi * 2) % 256) + (lo \div 128)]]

\* a natural below 2^31 as a u64
U64(n) ==
    << n % 256, (n \div 256) % 256, (n \div 65536) % 256, (n \div 16777216) % 256,
       0, 0, 0, 0 >>

Pow2(k) == <<1, 2, 4, 8, 16, 32, 64, 128, 256, 512, 1024, 2048>>[k + 1]

\* x ^ (x << 13): byte i of x << 13 is Shl5 of bytes i - 1 and i - 2
XorShl13(x) ==
    << x[1],
       Xor[x[2]][Shl5[x[1]][0]],
       Xor[x[3]][Shl5[x[2]][x[1]]],
       Xor[x[4]][Shl5[x[3]][x[2]]],
       Xor[x[5]][Shl5[x[4]][x[3]]],
       Xor[x[6]][Shl5[x[5]][x[4]]],
       Xor[x[7]][Shl5[x[6]][x[5]]],
       Xor[x[8]][Shl5[x[7]][x[6]]] >>

\* x ^ (x >> 7): byte i of x >> 7 is Shl1 of bytes i + 1 and i
XorShr7(x) ==
    << Xor[x[1]][Shl1[x[2]][x[1]]],
       Xor[x[2]][Shl1[x[3]][x[2]]],
       Xor[x[3]][Shl1[x[4]][x[3]]],
       Xor[x[4]][Shl1[x[5]][x[4]]],
       Xor[x[5]][Shl1[x[6]][x[5]]],
       Xor[x[6]][Shl1[x[7]][x[6]]],
       Xor[x[7]][Shl1[x[8]][x[7]]],
       Xor[x[8]][Shl1[0][x[8]]] >>

\* x ^ (x << 17): byte i of x << 17 is Shl1 of bytes i - 2 and i - 3
XorShl17(x) ==
    << x[1],
       x[2],
       Xor[x[3]][Shl1[x[1]][0]],
       Xor[x[4]][Shl1[x[2]][x[1]]],
       Xor[x[5]][Shl1[x[3]][x[2]]],
       Xor[x[6]][Shl1[x[4]][x[3]]],
       Xor[x[7]][Shl1[x[5]][x[4]]],
       Xor[x[8]][Shl1[x[6]][x[5]]] >>

\* x % m on a u64, for 0 < m < 2^22: Horner from the most significant byte
ModU64(x, m) ==
    LET h(r, i) == (r * 256 + x[i]) % m
    IN  h(h(h(h(h(h(h(h(0, 8), 7), 6), 5), 4), 3), 2), 1)

(***************************************************************************)
(* Rng (xorshift64)                                                        *)
(***************************************************************************)
RngNew(seed) == [state |-> IF seed = 0 THEN U64(1) ELSE U64(seed)]

\* x ^= x << 13; x ^= x >> 7; x ^= x << 17
NextU64(state) == XorShl17(XorShr7(XorShl13(state)))

\* next_int without the reduction: a mutant of NextInt
NextIntNoMod(rng, upper_bound) ==
    With(NextU64(rng.state),
         LAMBDA x : [rng |-> [state |-> x], val |-> ModU64(x, 2 * upper_bound)])

\* next_int: the advanced generator and the value returned
NextInt(rng, upper_bound) ==
    With(NextU64(rng.state),
         LAMBDA x : [rng |-> [state |-> x], val |-> ModU64(x, upper_bound)])

(***************************************************************************)
(* Direction, Tile                                                         *)
(***************************************************************************)
RIGHT == 1
UP    == 2
LEFT  == 4
DOWN  == 8

EmptyCell == 16     \* Option<Tile>::None in a grid cell
Masks     == 0 .. 15

TileNew(connections) == connections % 16

\* bit k (value 1, 2, 4, 8, ...) of a natural
Bit(c, k) == (c \div k) % 2

\* a | b on 4-bit values
Or4(a, b) ==
    LET m(k) == IF Bit(a, k) = 1 \/ Bit(b, k) = 1 THEN k ELSE 0
    IN  m(1) + m(2) + m(4) + m(8)

\* rotate without the wrap of the bit shifted out of the field: a mutant
TileRotateNoWrap(c) == ((c * 2) % 256) % 16

\* rotate shifting the field the other way: a mutant
TileRotateRight(c) ==
    LET r == c % 16
    IN  (r \div 2) + 8 * (r % 2)

\* Tile::rotate on the u8 field: r = c << 1; r = (r & 0x0F) | (r >> 4); r & 0x0F
TileRotate(c) ==
    LET r == (c * 2) % 256
    IN  Or4(r % 16, (r \div 16) % 16) % 16

\* Direction::opposite
Opposite(dir) ==
    CASE dir = RIGHT -> LEFT
      [] dir = LEFT  -> RIGHT
      [] dir = UP    -> DOWN
      [] dir = DOWN  -> UP
      [] OTHER       -> dir

Markings == {"Left", "Right", "Ok", "None", "Animating"}

HasConnection(c, dir) == Bit(c, dir) = 1

IsSingleConnection(c) == c \in {1, 2, 4, 8}

(***************************************************************************)
(* Grid and GameBoard                                                      *)
(***************************************************************************)
\* Grid::idx / GameBoard::marking_idx, shifted to a sequence index
Idx(b, x, y) == x * b.height + y + 1

GridGet(b, x, y) == b.tiles[Idx(b, x, y)]

GridSet(b, x, y, t) == [b EXCEPT !.tiles[Idx(b, x, y)] = t]

GetMarking(b, x, y) == b.markings[Idx(b, x, y)]

SetMarking(b, x, y, m) == [b EXCEPT !.markings[Idx(b, x, y)] = m]

\* `if let Some(tile) = grid.get(x, y) { tile.has_connection(dir) }`
TileHas(b, x, y, dir) ==
    GridGet(b, x, y) # EmptyCell /\ HasConnection(GridGet(b, x, y), dir)

\* GameBoard::get_new_element: the advanced board and the mask drawn
RECURSIVE Reroll(_, _)
Reroll(rng, k) ==
    IF IsSingleConnection(k)
    THEN With(NextInt(rng, 15), LAMBDA d : Reroll(d.rng, d.val + 1))
    ELSE [rng |-> rng, k |-> k]

\* get_new_element once the mask is settled: the counters and the result
Drawn(b, r) ==
    [board |-> [b EXCEPT !.rng = r.rng,
                         !.new_elements = @ + 1,
                         !.missing_link_elements =
                             IF IsSingleConnection(r.k) THEN @ + 1 ELSE @],
     k |-> r.k]

\* get_new_element that never draws again: a mutant of GetNewElement
GetNewElementNoReroll(b) ==
    With(NextInt(b.rng, 15), LAMBDA d0 :
         Drawn(b, [rng |-> d0.rng, k |-> d0.val + 1]))

GetNewElement(b) ==
    With(NextInt(b.rng, 15), LAMBDA d0 :
         Drawn(b, IF b.new_elements + 1 > 0
                     /\ (100 * b.missing_link_elements) \div (b.new_elements + 1)
                            > b.missing_links
                  THEN Reroll(d0.rng, d0.val + 1)
                  ELSE [rng |-> d0.rng, k |-> d0.val + 1]))

\* a reset_table whose loops stop one cell short
RECURSIVE ResetCellsButLast(_, _)
ResetCellsButLast(b, n) ==
    IF n >= b.width * b.height - 1 THEN b
    ELSE LET j == n \div b.width
             i == n % b.width
         IN  With(GetNewElement(b), LAMBDA g :
             With(SetMarking(GridSet(g.board, i, j, TileNew(g.k)), i, j, "None"),
                  LAMBDA b1 : ResetCellsButLast(b1, n + 1)))

\* GameBoard::reset_table: rows outermost, columns innermost
RECURSIVE ResetCells(_, _)
ResetCells(b, n) ==
    IF n >= b.width * b.height THEN b
    ELSE LET j == n \div b.width
             i == n % b.width
         IN  With(GetNewElement(b), LAMBDA g :
             With(SetMarking(GridSet(g.board, i, j, TileNew(g.k)), i, j, "None"),
                  LAMBDA b1 :
                      ResetCells(IF i = b.width - 1
                                 THEN [b1 EXCEPT !.multiplier_left[j + 1] = 1,
                                                 !.multiplier_right[j + 1] = 1]
                                 ELSE b1,
                                 n + 1)))

ResetTable(b, percent_missing_links) ==
    ResetCells([b EXCEPT !.missing_links = percent_missing_links,
                         !.new_elements = 0,
                         !.missing_link_elements = 0], 0)

\* GameBoard::new
NewBoard(width, height, missing_links, seed) ==
    ResetTable([width |-> width, height |-> height,
                tiles |-> [k \in 1 .. width * height |-> EmptyCell],
                markings |-> [k \in 1 .. width * height |-> "None"],
                multiplier_left |-> [k \in 1 .. height |-> 1],
                multiplier_right |-> [k \in 1 .. height |-> 1],
                rng |-> RngNew(seed),
                left_pins_connect |-> 0, right_pins_connect |-> 0,
                left_conquered |-> 0, right_conquered |-> 0,
                missing_links |-> missing_links,
                new_elements |-> 0, missing_link_elements |-> 0],
               missing_links)

(***************************************************************************)
(* Connectivity flood fill                                                 *)
(***************************************************************************)
\* the neighbours a marked tile pushes, in the order of the code
Pushes(b, tile, x, y) ==
       (IF HasConnection(tile, LEFT) /\ x > 0 THEN <<(<<x - 1, y, RIGHT>>)>> ELSE <<>>)
    \o (IF HasConnection(tile, UP) /\ y > 0 THEN <<(<<x, y - 1, DOWN>>)>> ELSE <<>>)
    \o (IF HasConnection(tile, RIGHT) THEN <<(<<x + 1, y, LEFT>>)>> ELSE <<>>)
    \o (IF HasConnection(tile, DOWN) THEN <<(<<x, y + 1, UP>>)>> ELSE <<>>)

\* the `while let Some(..) = queue.pop_front()` loop
RECURSIVE BfsLoop(_, _, _)
BfsLoop(b, queue, marker) ==
    IF queue = <<>> THEN b
    ELSE LET x     == Head(queue)[1]
             y     == Head(queue)[2]
             ctype == Head(queue)[3]
             rest  == Tail(queue)
         IN  IF x >= b.width \/ y >= b.height THEN BfsLoop(b, rest, marker)
             ELSE IF GetMarking(b, x, y) = marker THEN BfsLoop(b, rest, marker)
             ELSE IF ~TileHas(b, x, y, ctype) THEN BfsLoop(b, rest, marker)
             ELSE BfsLoop(SetMarking(b, x, y, marker),
                          rest \o Pushes(b, GridGet(b, x, y), x, y), marker)

\* a flood fill that enters a neighbour without asking for the facing
\* connection: a mutant of ExpandConnectionsBfs
RECURSIVE BfsLoopOneWay(_, _, _)
BfsLoopOneWay(b, queue, marker) ==
    IF queue = <<>> THEN b
    ELSE LET x     == Head(queue)[1]
             y     == Head(queue)[2]
             rest  == Tail(queue)
         IN  IF x >= b.width \/ y >= b.height THEN BfsLoopOneWay(b, rest, marker)
             ELSE IF GetMarking(b, x, y) = marker THEN BfsLoopOneWay(b, rest, marker)
             ELSE IF GridGet(b, x, y) = EmptyCell THEN BfsLoopOneWay(b, rest, marker)
             ELSE BfsLoopOneWay(SetMarking(b, x, y, marker),
                          rest \o Pushes(b, GridGet(b, x, y), x, y), marker)

ExpandOneWay(b, cx, cy, incoming_dir, marker) ==
    IF marker = "None" \/ marker = "Animating" THEN b
    ELSE BfsLoopOneWay(b, <<(<<cx, cy, incoming_dir>>)>>, marker)

\* GameBoard::expand_connections_bfs
ExpandConnectionsBfs(b, cx, cy, incoming_dir, marker) ==
    IF marker = "None" \/ marker = "Animating" THEN b
    ELSE BfsLoop(b, <<(<<cx, cy, incoming_dir>>)>>, marker)

\* check_connections, "Reset markings (preserve Animating)"
ResetMarkings(b) ==
    [b EXCEPT !.markings = [k \in DOMAIN b.markings |->
                              IF b.markings[k] # "Animating" THEN "None"
                              ELSE b.markings[k]]]

\* check_connections, pass 1: flood fill from the right edge, rows j..height-1
RECURSIVE RightPass(_, _)
RightPass(b, j) ==
    IF j >= b.height THEN b
    ELSE RightPass(IF TileHas(b, b.width - 1, j, RIGHT)
                   THEN ExpandConnectionsBfs(b, b.width - 1, j, RIGHT, "Right")
                   ELSE b, j + 1)

\* a pass 2 that marks the pin's tile Ok without flooding from it
RECURSIVE LeftPassPinOnly(_, _)
LeftPassPinOnly(b, j) ==
    IF j >= b.height THEN b
    ELSE LeftPassPinOnly(
             IF TileHas(b, 0, j, LEFT)
             THEN IF GetMarking(b, 0, j) = "Right" \/ GetMarking(b, 0, j) = "Ok"
                  THEN SetMarking(b, 0, j, "Ok")
                  ELSE ExpandConnectionsBfs(b, 0, j, LEFT, "Left")
             ELSE b, j + 1)

\* check_connections, pass 2: flood fill from the left edge
RECURSIVE LeftPass(_, _)
LeftPass(b, j) ==
    IF j >= b.height THEN b
    ELSE LeftPass(IF TileHas(b, 0, j, LEFT)
                  THEN ExpandConnectionsBfs(b, 0, j, LEFT,
                           IF GetMarking(b, 0, j) = "Right" \/ GetMarking(b, 0, j) = "Ok"
                           THEN "Ok" ELSE "Left")
                  ELSE b, j + 1)

\* check_connections, pass 3: the pins counted, rows j..height-1;
\* acc = <<result, left_pins_connect, right_pins_connect>>
RECURSIVE PinPass(_, _, _)
PinPass(b, j, acc) ==
    IF j >= b.height THEN acc
    ELSE LET l == TileHas(b, 0, j, LEFT) /\ GetMarking(b, 0, j) = "Ok"
             r == TileHas(b, b.width - 1, j, RIGHT)
                  /\ GetMarking(b, b.width - 1, j) = "Ok"
         IN  PinPass(b, j + 1, << IF l THEN 1 ELSE acc[1],
                                  IF l THEN acc[2] + 1 ELSE acc[2],
                                  IF r THEN acc[3] + 1 ELSE acc[3] >>)

\* a check that counts on top of the previous call's counters: a mutant
CheckConnectionsNoReset(b) ==
    With(LeftPass(RightPass(ResetMarkings(b), 0), 0), LAMBDA b1 :
    With(PinPass(b1, 0, <<0, b.left_pins_connect, b.right_pins_connect>>),
         LAMBDA pins :
             [board |-> [b1 EXCEPT !.left_pins_connect = pins[2],
                                   !.right_pins_connect = pins[3]],
              result |-> pins[1]]))

\* GameBoard::check_connections: the board afterwards and the value returned
CheckConnections(b) ==
    With(LeftPass(RightPass(ResetMarkings(b), 0), 0), LAMBDA b1 :
    With(PinPass(b1, 0, <<0, 0, 0>>), LAMBDA pins :
         [board |-> [b1 EXCEPT !.left_pins_connect = pins[2],
                               !.right_pins_connect = pins[3]],
          result |-> pins[1]]))

(***************************************************************************)
(* SpecBoard: a GameBoard driven through its own interface, as the tests   *)
(* of board.rs drive it: GameBoard::new, grid.set, check_connections.      *)
(***************************************************************************)
DEFAULT_MISSING_LINKS == 3

IdleBoard == [width |-> 0, height |-> 0]
IdleRng   == [state |-> U64(0)]
IdleTile  == [connections |-> 0, made |-> 0, turns |-> 0]
IdleTimers == [kind |-> Nil]
IdleGame  ==
    /\ phase = Nil /\ mode = Nil /\ left_score = 0 /\ right_score = 0
    /\ bot_enabled = FALSE /\ bot_delay_timer = 0
    /\ anims = Nil /\ effects = Nil /\ bonuses = Nil
    /\ power_left = Nil /\ power_right = Nil
    /\ pending_bonus = Nil /\ pending_bomb_params = None
    /\ sound_events = <<>> /\ score_popups = <<>> /\ pending_tap = None
    /\ render_buffer = <<>>
    /\ calls = Nil /\ held = 0 /\ waited = Nil

InitBoard ==
    /\ \E w \in 1 .. MaxWidth, h \in 1 .. MaxHeight, seed \in Seeds :
          board = NewBoard(w, h, DEFAULT_MISSING_LINKS, seed)
    /\ pre = board
    /\ last = [op |-> "new"]
    /\ edits = 0
    /\ rng_a = IdleRng /\ rng_b = IdleRng /\ out_a = <<>> /\ out_b = <<>>
    /\ one_tile = IdleTile /\ timers = IdleTimers
    /\ IdleGame

\* board.grid.set(x, y, Some(Tile::new(mask)))
BoardSetTile(x, y, mask) ==
    /\ edits < MaxEdits
    /\ board' = GridSet(board, x, y, TileNew(mask))
    /\ pre' = board
    /\ edits' = edits + 1
    /\ last' = [op |-> "set", x |-> x, y |-> y]
    /\ UNCHANGED <<rngVars, one_tile, timers, gameVars>>

\* board.set_marking(x, y, m)
BoardSetMarking(x, y, m) ==
    /\ edits < MaxEdits
    /\ board' = SetMarking(board, x, y, m)
    /\ pre' = board
    /\ edits' = edits + 1
    /\ last' = [op |-> "set_marking", x |-> x, y |-> y]
    /\ UNCHANGED <<rngVars, one_tile, timers, gameVars>>

\* board.check_connections()
BoardCheck ==
    /\ \E r \in {CheckConnections(board)} :
          /\ board' = r.board
          /\ last' = [op |-> "check_connections", ret |-> r.result]
    /\ pre' = board
    /\ UNCHANGED <<edits, rngVars, one_tile, timers, gameVars>>

NextBoard ==
    \/ \E x \in 0 .. board.width - 1, y \in 0 .. board.height - 1, mask \in Masks :
          BoardSetTile(x, y, mask)
    \/ \E x \in 0 .. board.width - 1, y \in 0 .. board.height - 1, m \in Markings :
          BoardSetMarking(x, y, m)
    \/ BoardCheck

SpecBoard == InitBoard /\ [][NextBoard]_vars

(***************************************************************************)
(* Connectivity, stated without the flood fill                             *)
(***************************************************************************)
Cells(b) == (0 .. b.width - 1) \X (0 .. b.height - 1)

\* the cell next to c in direction dir (y grows downwards)
Toward(c, dir) ==
    CASE dir = RIGHT -> <<c[1] + 1, c[2]>>
      [] dir = LEFT  -> <<c[1] - 1, c[2]>>
      [] dir = UP    -> <<c[1], c[2] - 1>>
      [] dir = DOWN  -> <<c[1], c[2] + 1>>

\* c and d are neighbours whose tiles have connections facing each other
Facing(b, c, d) ==
    \E dir \in {RIGHT, UP, LEFT, DOWN} :
        /\ d = Toward(c, dir)
        /\ TileHas(b, c[1], c[2], dir)
        /\ TileHas(b, d[1], d[2], Opposite(dir))

\* the cells linked to a cell of S through mutually facing connections
RECURSIVE Linked(_, _)
Linked(b, S) ==
    LET T == S \cup {d \in Cells(b) : \E c \in S : Facing(b, c, d)}
    IN  IF T = S THEN S ELSE Linked(b, T)

LeftPinCells(b)  == {c \in Cells(b) : c[1] = 0 /\ TileHas(b, c[1], c[2], LEFT)}
RightPinCells(b) == {c \in Cells(b) : c[1] = b.width - 1 /\ TileHas(b, c[1], c[2], RIGHT)}

ExpectedMarking(b, c) ==
    LET l == c \in Linked(b, LeftPinCells(b))
        r == c \in Linked(b, RightPinCells(b))
    IN  IF l /\ r THEN "Ok" ELSE IF r THEN "Right" ELSE IF l THEN "Left" ELSE "None"

NoAnimating(b) == \A c \in Cells(b) : GetMarking(b, c[1], c[2]) # "Animating"

Checked == last.op = "check_connections"

\* C1: after check_connections on a board with no Animating cell, a cell is
\* Ok iff it is linked through mutually facing connections to a left pin
\* and to a right pin, Right iff only to a right pin, Left iff only to a
\* left pin, None otherwise.
C1_Markings ==
    (Checked /\ NoAnimating(pre)) =>
        \A c \in Cells(board) :
            GetMarking(board, c[1], c[2]) = ExpectedMarking(pre, c)

\* a check of a 3x2 board that found a chain through a cell whose mark from
\* before the call was stale, beside a cell linked to one edge only
C1_Witness ==
    /\ Checked /\ NoAnimating(pre)
    /\ board.width >= 3 /\ board.height >= 2
    /\ \E c \in Cells(board) :
          /\ GetMarking(board, c[1], c[2]) = "Ok"
          /\ GetMarking(pre, c[1], c[2]) \notin {"Ok", "None"}
    /\ \E d \in Cells(board) : GetMarking(board, d[1], d[2]) \in {"Left", "Right"}

OkLeftRows(b) ==
    {j \in 0 .. b.height - 1 : TileHas(b, 0, j, LEFT) /\ GetMarking(b, 0, j) = "Ok"}
OkRightRows(b) ==
    {j \in 0 .. b.height - 1 :
        TileHas(b, b.width - 1, j, RIGHT) /\ GetMarking(b, b.width - 1, j) = "Ok"}

\* C2: check_connections returns 1 iff some left-edge tile with a LEFT
\* connection is Ok, and leaves in left_pins_connect / right_pins_connect
\* the number of Ok left / right pins, whatever the counters held before.
C2_Pins ==
    Checked =>
        /\ last.ret = (IF OkLeftRows(board) # {} THEN 1 ELSE 0)
        /\ board.left_pins_connect = Cardinality(OkLeftRows(board))
        /\ board.right_pins_connect = Cardinality(OkRightRows(board))

\* a check that returns 1 on a board whose counters were nonzero before it
C2_Witness ==
    /\ Checked /\ last.ret = 1
    /\ pre.left_pins_connect > 0 /\ pre.right_pins_connect > 0
    /\ board.left_pins_connect > 0 /\ board.right_pins_connect > 0

(***************************************************************************)
(* SpecRng: two Rng instances constructed from one seed, drawn from        *)
(* independently.                                                          *)
(***************************************************************************)
InitRng ==
    /\ \E seed \in Seeds : rng_a = RngNew(seed) /\ rng_b = RngNew(seed)
    /\ out_a = <<>> /\ out_b = <<>>
    /\ board = IdleBoard /\ pre = IdleBoard /\ edits = 0
    /\ last = [op |-> "new"]
    /\ one_tile = IdleTile /\ timers = IdleTimers
    /\ IdleGame

DrawA(upper_bound) ==
    /\ Len(out_a) < MaxDraws
    /\ rng_a' = NextInt(rng_a, upper_bound).rng
    /\ out_a' = Append(out_a, <<upper_bound, NextInt(rng_a, upper_bound).val>>)
    /\ last' = [op |-> "next_int", ret |-> NextInt(rng_a, upper_bound).val]
    /\ UNCHANGED <<rng_b, out_b, boardVars, one_tile, timers, gameVars>>

DrawB(upper_bound) ==
    /\ Len(out_b) < MaxDraws
    /\ rng_b' = NextInt(rng_b, upper_bound).rng
    /\ out_b' = Append(out_b, <<upper_bound, NextInt(rng_b, upper_bound).val>>)
    /\ last' = [op |-> "next_int", ret |-> NextInt(rng_b, upper_bound).val]
    /\ UNCHANGED <<rng_a, out_a, boardVars, one_tile, timers, gameVars>>

NextRng ==
    \/ \E ub \in DrawBounds : DrawA(ub)
    \/ \E ub \in DrawBounds : DrawB(ub)

SpecRng == InitRng /\ [][NextRng]_vars

\* C10: two Rng instances built from one seed return the same next_int
\* values as long as they were asked the same bounds, and every value
\* returned for a bound b > 0 lies in 0 .. b - 1.
C10_Rng ==
    /\ \A i \in 1 .. Len(out_a) :
          (i <= Len(out_b) /\ \A k \in 1 .. i : out_a[k][1] = out_b[k][1])
              => out_a[i][2] = out_b[i][2]
    /\ \A i \in 1 .. Len(out_a) : out_a[i][2] >= 0 /\ out_a[i][2] < out_a[i][1]
    /\ \A i \in 1 .. Len(out_b) : out_b[i][2] >= 0 /\ out_b[i][2] < out_b[i][1]

\* both instances drew the same bounds, among them one with a value in the
\* upper half of its range, and their states have left the seed
C10_Witness ==
    /\ Len(out_a) = MaxDraws /\ Len(out_b) = MaxDraws
    /\ \A k \in 1 .. MaxDraws : out_a[k][1] = out_b[k][1]
    /\ \E k \in 1 .. MaxDraws : out_a[k][1] > 1 /\ 2 * out_a[k][2] >= out_a[k][1]
    /\ rng_a = rng_b

(***************************************************************************)
(* GameBoard: gravity                                                      *)
(***************************************************************************)
Min(a, b) == IF a < b THEN a ELSE b
Max(a, b) == IF a > b THEN a ELSE b

\* usize::saturating_sub
SaturatingSub(a, b) == Max(a - b, 0)

\* the survivors collected from the top row down: a mutant
RECURSIVE SurvivorsTopDown(_, _, _)
SurvivorsTopDown(b, x, y) ==
    IF y < 0 THEN <<>>
    ELSE SurvivorsTopDown(b, x, y - 1)
         \o (IF GetMarking(b, x, y) # "Ok" /\ GridGet(b, x, y) # EmptyCell
             THEN <<GridGet(b, x, y)>> ELSE <<>>)

\* the tiles of column x that are not Ok, from row y up to row 0
RECURSIVE Survivors(_, _, _)
Survivors(b, x, y) ==
    IF y < 0 THEN <<>>
    ELSE (IF GetMarking(b, x, y) # "Ok" /\ GridGet(b, x, y) # EmptyCell
          THEN <<GridGet(b, x, y)>> ELSE <<>>) \o Survivors(b, x, y - 1)

\* `for (i, tile) in survivors.into_iter().enumerate()`, from index i on
RECURSIVE PlaceSurvivors(_, _, _, _)
PlaceSurvivors(b, x, survivors, i) ==
    IF i >= Len(survivors) THEN b
    ELSE PlaceSurvivors(GridSet(b, x, b.height - 1 - i, survivors[i + 1]),
                        x, survivors, i + 1)

\* `let conn = self.get_new_element(); self.grid.set(x, y, Some(Tile::new(conn)))`
\* with g what get_new_element gave
Place(g, x, y) == GridSet(g.board, x, y, TileNew(g.k))

\* `for y in 0..num_new`, from row y on
RECURSIVE FillTop(_, _, _, _)
FillTop(b, x, y, num_new) ==
    IF y >= num_new THEN b
    ELSE FillTop(Place(GetNewElement(b), x, y), x, y + 1, num_new)

\* GameBoard::remove_and_shift_connecting_tiles, columns x..width-1
RECURSIVE RemoveAndShiftFrom(_, _)
RemoveAndShiftFrom(b, x) ==
    IF x >= b.width THEN b
    ELSE With(Survivors(b, x, b.height - 1), LAMBDA survivors :
              RemoveAndShiftFrom(
                  FillTop(PlaceSurvivors(b, x, survivors, 0), x, 0,
                          b.height - Len(survivors)),
                  x + 1))

RemoveAndShiftConnectingTiles(b) == RemoveAndShiftFrom(b, 0)

\* Grid::copy_within_column
CopyWithinColumn(b, x, from_y, to_y) ==
    [b EXCEPT !.tiles[Idx(b, x, to_y)] = b.tiles[Idx(b, x, from_y)]]

\* the shift without the rows already shifted: a mutant
RECURSIVE BombShiftNoOffset(_, _, _, _)
BombShiftNoOffset(b, x, shift_y, shifted) ==
    IF shift_y < 1 THEN b
    ELSE BombShiftNoOffset(CopyWithinColumn(b, x, shift_y - 1, shift_y),
                           x, shift_y - 1, shifted)

\* bomb_table: `for shift_y in (1..=y).rev()`, from shift_y down
RECURSIVE BombShift(_, _, _, _)
BombShift(b, x, shift_y, shifted) ==
    IF shift_y < 1 THEN b
    ELSE BombShift(CopyWithinColumn(b, x, shift_y + shifted - 1, shift_y + shifted),
                   x, shift_y - 1, shifted)

\* bomb_table: `for y in (start_j..end_j).rev()`, from y down; the board and
\* the number of rows shifted
RECURSIVE BombRows(_, _, _, _, _)
BombRows(b, x, y, start_j, shifted) ==
    IF y < start_j THEN [board |-> b, shifted |-> shifted]
    ELSE BombRows(Place(GetNewElement(IF y >= 1 THEN BombShift(b, x, y, shifted)
                                      ELSE b), x, 0),
                  x, y - 1, start_j, shifted + 1)

\* bomb_table: `for fill_y in (0..shifted).rev()`, from fill_y down
RECURSIVE BombFill(_, _, _)
BombFill(b, x, fill_y) ==
    IF fill_y < 0 THEN b
    ELSE BombFill(Place(GetNewElement(b), x, fill_y), x, fill_y - 1)

\* bomb_table: `for x in start_i..end_i`, from x on
RECURSIVE BombColumns(_, _, _, _, _)
BombColumns(b, x, end_i, start_j, end_j) ==
    IF x >= end_i THEN b
    ELSE With(BombRows(b, x, end_j - 1, start_j, 0), LAMBDA r :
              BombColumns(BombFill(r.board, x, r.shifted - 1), x + 1, end_i,
                          start_j, end_j))

\* GameBoard::bomb_table
BombTable(b, ati, atj, delta_x, delta_y) ==
    IF ati >= b.width \/ atj >= b.height THEN b
    ELSE BombColumns(b, SaturatingSub(ati, delta_x),
                     Min(ati + delta_x + 1, b.width),
                     SaturatingSub(atj, delta_y),
                     Min(atj + delta_y + 1, b.height))

(***************************************************************************)
(* PowerUpInventory                                                        *)
(***************************************************************************)
PowerUpTypes == {"Bomb", "Cross", "Arrow"}

\* PowerUpInventory::default
NoPowers == [has_bomb |-> FALSE, has_cross |-> FALSE, has_arrow |-> FALSE,
             armed |-> Nil]

Has(inv, ptype) ==
    CASE ptype = "Bomb"  -> inv.has_bomb
      [] ptype = "Cross" -> inv.has_cross
      [] ptype = "Arrow" -> inv.has_arrow

SetHas(inv, ptype, v) ==
    CASE ptype = "Bomb"  -> [inv EXCEPT !.has_bomb = v]
      [] ptype = "Cross" -> [inv EXCEPT !.has_cross = v]
      [] ptype = "Arrow" -> [inv EXCEPT !.has_arrow = v]

\* toggle_arm without the check that the type is held: a mutant
ToggleArmUnheld(inv, ptype) ==
    IF inv.armed = ptype THEN [inv |-> [inv EXCEPT !.armed = Nil], ret |-> FALSE]
    ELSE [inv |-> [inv EXCEPT !.armed = ptype], ret |-> TRUE]

\* PowerUpInventory::toggle_arm: the inventory and the value returned
ToggleArm(inv, ptype) ==
    IF ~Has(inv, ptype) THEN [inv |-> inv, ret |-> FALSE]
    ELSE IF inv.armed = ptype THEN [inv |-> [inv EXCEPT !.armed = Nil], ret |-> FALSE]
    ELSE [inv |-> [inv EXCEPT !.armed = ptype], ret |-> TRUE]

\* consume_armed reading `armed` without taking it: a mutant
ConsumeKeepsArmed(inv) ==
    IF inv.armed # Nil
    THEN [inv |-> SetHas(inv, inv.armed, FALSE), ret |-> inv.armed]
    ELSE [inv |-> inv, ret |-> Nil]

\* PowerUpInventory::consume_armed: the inventory and the value returned
ConsumeArmed(inv) ==
    IF inv.armed # Nil
    THEN [inv |-> SetHas([inv EXCEPT !.armed = Nil], inv.armed, FALSE),
          ret |-> inv.armed]
    ELSE [inv |-> inv, ret |-> Nil]

(***************************************************************************)
(* Animations.  World-space y is in millionths of a pixel, a speed in      *)
(* millionths of a pixel per frame.                                        *)
(***************************************************************************)
TILE_SIZE     == 50
GRID_OFFSET_Y == 25
Micro         == 1000 * 1000

ROTATE_DURATION == 200     \* RotateAnim::duration, 0.2 s

\* RotateAnim::new / RotateAnim::new_with_source
RotateAnimNew(x, y, rotation_count, is_bot) ==
    [x |-> x, y |-> y, rotation_count |-> Max(rotation_count, 1),
     is_bot |-> is_bot, progress |-> 0]

\* RotateAnim::tick: progress += dt / duration, in milliseconds
RotateAnimTick(anim, dt) == [anim EXCEPT !.progress = @ + dt]

\* tick(dt).is_some(): progress < 1.0
RotateAnimAlive(anim) == anim.progress < ROTATE_DURATION

\* retain_mut over a sequence of ticked items
RECURSIVE Retain(_, _, _)
Retain(items, Alive(_), i) ==
    IF i > Len(items) THEN <<>>
    ELSE (IF Alive(items[i]) THEN <<items[i]>> ELSE <<>>) \o Retain(items, Alive, i + 1)

\* the items of a sequence, each stepped
RECURSIVE MapSeq(_, _, _)
MapSeq(items, Step(_), i) ==
    IF i > Len(items) THEN <<>>
    ELSE <<Step(items[i])>> \o MapSeq(items, Step, i + 1)

\* AnimationState::tick_rotations
TickRotations(a, dt) ==
    LET step(anim) == RotateAnimTick(anim, dt)
    IN  [a EXCEPT !.rotate_anims = Retain(MapSeq(a.rotate_anims, step, 1),
                                          RotateAnimAlive, 1)]

\* GRAVITY * SPEED_FACTOR * DT = 9.8 / 60 pixels per frame
GravityStep == (98 * Micro) \div 600

\* speed += GRAVITY * DT; speed *= 1.0 - FRICTION (FRICTION = 0.005)
FallSpeed(speed) ==
    LET v == speed + GravityStep
    IN  v - ((v * 5 + 999) \div 1000)

\* FallAnim::new
FallAnimNew(x, y, start_y, target_y) ==
    [x |-> x, y |-> y, current_y |-> start_y, target_y |-> target_y, speed |-> 0]

\* FallAnim::tick, the fields after it
FallAnimTick(anim) ==
    [anim EXCEPT !.speed = FallSpeed(anim.speed),
                 !.current_y = anim.current_y + FallSpeed(anim.speed)]

\* tick().is_some(): the target not reached yet
FallAnimAlive(anim) == anim.current_y < anim.target_y

\* tick_falls that moves no tile: a mutant of TickFalls
TickFallsStill(a) == a

\* AnimationState::tick_falls
TickFalls(a) ==
    [a EXCEPT !.fall_anims = Retain(MapSeq(a.fall_anims, FallAnimTick, 1),
                                    FallAnimAlive, 1)]

\* tick_freeze that takes the timer to be done only once it is below zero:
\* a mutant of TickFreeze
TickFreezeLate(a, dt) ==
    IF a.freeze_timer > 0
    THEN IF a.freeze_timer - dt < 0
         THEN [anims |-> [a EXCEPT !.freeze_timer = 0], ret |-> TRUE]
         ELSE [anims |-> [a EXCEPT !.freeze_timer = @ - dt], ret |-> FALSE]
    ELSE [anims |-> a, ret |-> FALSE]

\* AnimationState::tick_freeze: the state and the value returned
TickFreeze(a, dt) ==
    IF a.freeze_timer > 0
    THEN IF a.freeze_timer - dt <= 0
         THEN [anims |-> [a EXCEPT !.freeze_timer = 0], ret |-> TRUE]
         ELSE [anims |-> [a EXCEPT !.freeze_timer = @ - dt], ret |-> FALSE]
    ELSE [anims |-> a, ret |-> FALSE]

\* AnimationState::new
NewAnims == [rotate_anims |-> <<>>, fall_anims |-> <<>>, freeze_timer |-> 0]

(***************************************************************************)
(* Bonuses                                                                 *)
(***************************************************************************)
\* FallingBonus::points
BonusPoints(kind) ==
    CASE kind = "Coin1" -> 1
      [] kind = "Coin2" -> 2
      [] kind = "Coin5" -> 5
      [] OTHER          -> 0

\* PowerUpType::drop_freq
DropFreq(ptype) ==
    CASE ptype = "Bomb"  -> 5
      [] ptype = "Cross" -> 3
      [] ptype = "Arrow" -> 8

\* calculate_bonus_drops with the lower threshold off by one: a mutant
CalculateBonusDropsFromThree(left_pins, right_pins) ==
    LET side(pins) == IF pins > 6 THEN <<1, 3, pins - 6>>
                      ELSE IF pins >= 3 THEN <<1, pins - 3, 0>>
                      ELSE <<0, 0, 0>>
        l == side(left_pins)
        r == side(right_pins)
    IN  <<2 + l[1] + r[1], l[2] + r[2], l[3] + r[3]>>

\* calculate_bonus_drops
CalculateBonusDrops(left_pins, right_pins) ==
    LET side(pins) == IF pins > 6 THEN <<1, 3, pins - 6>>
                      ELSE IF pins > 3 THEN <<1, pins - 3, 0>>
                      ELSE <<0, 0, 0>>
        l == side(left_pins)
        r == side(right_pins)
    IN  <<2 + l[1] + r[1], l[2] + r[2], l[3] + r[3]>>

\* FallingBonus::tick, the fields after it (scale and rotation are not kept)
FallingBonusTick(bonus) ==
    LET y == bonus.current_y + FallSpeed(bonus.speed)
    IN  [bonus EXCEPT !.speed = FallSpeed(bonus.speed),
                      !.current_y = IF y >= bonus.target_y THEN bonus.target_y ELSE y]

\* tick() returned true: still falling
FallingBonusAlive(bonus) == bonus.current_y < bonus.target_y
FallingBonusLanded(bonus) == ~FallingBonusAlive(bonus)

\* tick_falling that lands every bonus after one frame, wherever it is: a
\* mutant of TickFalling
TickFallingLandsAll(bs) ==
    With(MapSeq(bs.falling, FallingBonusTick, 1), LAMBDA ticked :
         [falling |-> <<>>, landed |-> bs.landed \o ticked])

\* BonusState::tick_falling
TickFalling(bs) ==
    With(MapSeq(bs.falling, FallingBonusTick, 1), LAMBDA ticked :
         [falling |-> Retain(ticked, FallingBonusAlive, 1),
          landed  |-> bs.landed \o Retain(ticked, FallingBonusLanded, 1)])

\* BonusState::new / BonusState::clear
NoBonuses == [falling |-> <<>>, landed |-> <<>>]

\* spawn_bonuses, the `loop` of the closure: the generator and the cell picked
RECURSIVE PickCell(_, _, _, _)
PickCell(b, rng, occupied, attempts) ==
    With(NextInt(rng, b.width), LAMBDA dx :
    With(NextInt(dx.rng, b.height), LAMBDA dy :
         IF <<dx.val, dy.val>> \notin occupied \/ attempts > 50
         THEN [rng |-> dy.rng, rx |-> dx.val, ry |-> dy.val]
         ELSE PickCell(b, dy.rng, occupied, attempts + 1)))

\* spawn_bonuses, the closure `spawn`, with c the cell picked
SpawnAt(b, st, kind, c, target_y) ==
    [falling  |-> Append(st.falling,
                    [tile_x |-> c.rx, tile_y |-> c.ry,
                     current_y |-> target_y - (b.height * TILE_SIZE * Micro) \div 2,
                     target_y |-> target_y, speed |-> 0, kind |-> kind]),
     rng      |-> c.rng,
     occupied |-> st.occupied \cup {<<c.rx, c.ry>>}]

\* spawn_bonuses, the closure `spawn`; st = [falling, rng, occupied]
Spawn(b, st, kind) ==
    With(PickCell(b, st.rng, st.occupied, 0), LAMBDA c :
         SpawnAt(b, st, kind, c,
                 (GRID_OFFSET_Y + c.ry * TILE_SIZE) * Micro + (TILE_SIZE * Micro) \div 2))

RECURSIVE SpawnMany(_, _, _, _)
SpawnMany(b, st, kind, n) ==
    IF n = 0 THEN st ELSE SpawnMany(b, Spawn(b, st, kind), kind, n - 1)

\* spawn_bonuses, `if rng.next_int(ptype.drop_freq()) == 0 { spawn(..) }`
SpawnPowerUp(b, st, ptype) ==
    With(NextInt(st.rng, DropFreq(ptype)), LAMBDA d :
         IF d.val = 0 THEN Spawn(b, [st EXCEPT !.rng = d.rng], ptype)
         ELSE [st EXCEPT !.rng = d.rng])

\* BonusState::spawn_bonuses: the bonuses and the generator afterwards
SpawnBonuses(many1, many2, many5, b, rng) ==
    LET s0 == [falling |-> <<>>, rng |-> rng, occupied |-> {}]
        s1 == SpawnMany(b, s0, "Coin1", many1)
        s2 == SpawnMany(b, s1, "Coin2", many2)
        s3 == SpawnMany(b, s2, "Coin5", many5)
    IN  With(SpawnPowerUp(b, SpawnPowerUp(b, SpawnPowerUp(b, s3, "Bomb"), "Cross"),
                          "Arrow"),
             LAMBDA s4 : [bonuses |-> [falling |-> s4.falling, landed |-> <<>>],
                          rng |-> s4.rng])

(***************************************************************************)
(* Effects: arcs and particles.  An arc keeps its endpoints (cells; a pin  *)
(* is the cell one column outside the grid) and its subdivision depth, a   *)
(* particle its remaining lifetime.  The coordinates drawn for them are    *)
(* not kept, the draws are made.                                           *)
(***************************************************************************)
\* n calls of rng.next_int whose values are not kept: each advances the
\* generator by one next_u64
RECURSIVE DrawN(_, _)
DrawN(rng, n) ==
    IF n = 0 THEN rng
    ELSE With([state |-> NextU64(rng.state)], LAMBDA after : DrawN(after, n - 1))

\* displacements.len(): num_segments.saturating_sub(1), num_segments = 1 << po2
NumDisplacements(power_of_two) == SaturatingSub(Pow2(power_of_two), 1)

\* ElectricArc::new: the arc (generate_displacements draws are made by the caller)
ElectricArcNew(start, end, power_of_two, marker) ==
    [start |-> start, end |-> end, power_of_two |-> power_of_two, marker |-> marker]

\* build_arcs_from_board: the pin arcs of row y for one marker
PinArcs(b, marker, po2, y) ==
       (IF GetMarking(b, 0, y) = marker /\ TileHas(b, 0, y, LEFT)
        THEN <<ElectricArcNew(<<-1, y>>, <<0, y>>, po2, marker)>> ELSE <<>>)
    \o (IF GetMarking(b, b.width - 1, y) = marker /\ TileHas(b, b.width - 1, y, RIGHT)
        THEN <<ElectricArcNew(<<b.width - 1, y>>, <<b.width, y>>, po2, marker)>>
        ELSE <<>>)

\* build_arcs_from_board: the internal arcs that start at cell (x, y)
CellArcs(b, marker, po2, x, y) ==
    IF GetMarking(b, x, y) # marker \/ GridGet(b, x, y) = EmptyCell THEN <<>>
    ELSE (IF /\ TileHas(b, x, y, RIGHT) /\ x + 1 < b.width
             /\ TileHas(b, x + 1, y, LEFT) /\ GetMarking(b, x + 1, y) = marker
          THEN <<ElectricArcNew(<<x, y>>, <<x + 1, y>>, po2, marker)>> ELSE <<>>)
      \o (IF /\ TileHas(b, x, y, DOWN) /\ y + 1 < b.height
             /\ TileHas(b, x, y + 1, UP) /\ GetMarking(b, x, y + 1) = marker
          THEN <<ElectricArcNew(<<x, y>>, <<x, y + 1>>, po2, marker)>> ELSE <<>>)

\* `for x in 0..board.width`, from x on
RECURSIVE RowCellArcs(_, _, _, _, _)
RowCellArcs(b, marker, po2, x, y) ==
    IF x >= b.width THEN <<>>
    ELSE CellArcs(b, marker, po2, x, y) \o RowCellArcs(b, marker, po2, x + 1, y)

\* `for y in 0..board.height`, from y on
RECURSIVE MarkerArcs(_, _, _, _)
MarkerArcs(b, marker, po2, y) ==
    IF y >= b.height THEN <<>>
    ELSE PinArcs(b, marker, po2, y) \o RowCellArcs(b, marker, po2, 0, y)
         \o MarkerArcs(b, marker, po2, y + 1)

\* the draws of generate_displacements / twitch for arcs i.. of a sequence
RECURSIVE ArcDraws(_, _, _)
ArcDraws(rng, arcs, i) ==
    IF i > Len(arcs) THEN rng
    ELSE With(DrawN(rng, NumDisplacements(arcs[i].power_of_two)),
              LAMBDA after : ArcDraws(after, arcs, i + 1))

\* EffectsState::build_arcs_from_board
BuildArcsFromBoard(e, b) ==
    With(MarkerArcs(b, "Left", 4, 0) \o MarkerArcs(b, "Right", 4, 0)
         \o MarkerArcs(b, "Ok", 3, 0),
         LAMBDA arcs : [e EXCEPT !.arcs = arcs, !.rng = ArcDraws(e.rng, arcs, 1)])

PARTICLE_LIFETIME == 2000     \* spawn_zap_particles, lifetime = 2.0
COUNT_PER_TILE    == 10       \* spawn_zap_particles, count_per_tile

\* spawn_zap_particles, `for _ in 0..count_per_tile`: sx, sy and a colour drawn
RECURSIVE TileParticles(_, _)
TileParticles(e, n) ==
    IF n = 0 THEN e
    ELSE LET sx == NextInt(e.rng, 20000)
             sy == NextInt(sx.rng, 20000)
             co == NextInt(sy.rng, 13)
         IN  With([e EXCEPT !.rng = co.rng,
                            !.particles = Append(@, PARTICLE_LIFETIME)],
                  LAMBDA e1 : TileParticles(e1, n - 1))

\* spawn_zap_particles, cells n.. in the order x outermost, y innermost
RECURSIVE ZapParticlesFrom(_, _, _)
ZapParticlesFrom(e, b, n) ==
    IF n >= b.width * b.height THEN e
    ELSE With(IF GetMarking(b, n \div b.height, n % b.height) = "Ok"
              THEN TileParticles(e, COUNT_PER_TILE) ELSE e,
              LAMBDA e1 : ZapParticlesFrom(e1, b, n + 1))

\* EffectsState::spawn_zap_particles
SpawnZapParticles(e, b) == ZapParticlesFrom(e, b, 0)

\* EffectsState::spawn_explosion_particles
SpawnExplosionParticles(e, positions) == e

\* EffectsState::tick
EffectsTick(e, dt) ==
    LET age(life) == life - dt
        alive(life) == life > 0
    IN  [e EXCEPT !.rng = ArcDraws(e.rng, e.arcs, 1),
                  !.particles = Retain(MapSeq(e.particles, age, 1), alive, 1)]

\* effects that start their generator from the seed of the board: a mutant
NewEffectsBoardSeed(seed) ==
    [arcs |-> <<>>, particles |-> <<>>, rng |-> RngNew(seed)]

\* EffectsState::new
NewEffects(seed) ==
    [arcs |-> <<>>, particles |-> <<>>, rng |-> RngNew(seed + 7919)]

(***************************************************************************)
(* BotPlayer                                                               *)
(***************************************************************************)
\* BotPlayer::evaluate_connections: the board as checked and the score
\* evaluate_connections, the score of the checked board c
ConnectionScore(c, zap) ==
    IF zap # 0
    THEN 2 * Cardinality({p \in (0 .. c.width - 1) \X (0 .. c.height - 1) :
                             GetMarking(c, p[1], p[2]) = "Ok"})
    ELSE Cardinality({p \in (0 .. c.width - 1) \X (0 .. c.height - 1) :
                         GetMarking(c, p[1], p[2]) = "Right"})
         + 3 * Cardinality({j \in 0 .. c.height - 1 :
                               /\ GetMarking(c, c.width - 1, j) = "Right"
                               /\ TileHas(c, c.width - 1, j, RIGHT)})

EvaluateConnections(b) ==
    With(CheckConnections(b), LAMBDA r :
         [board |-> r.board, score |-> ConnectionScore(r.board, r.result)])

\* GameBoard: the tile at (x, y) rotated, if there is one
RotateAt(b, x, y) ==
    IF GridGet(b, x, y) = EmptyCell THEN b
    ELSE GridSet(b, x, y, TileRotate(GridGet(b, x, y)))

\* the rotations with a later trial of equal score replacing the best: a
\* mutant
RECURSIVE BotRotationsLast(_, _, _, _, _)
BotRotationsLast(sim, x, y, rot, best) ==
    IF rot > 3 THEN best
    ELSE With(EvaluateConnections(RotateAt(sim, x, y)), LAMBDA e :
              BotRotationsLast(e.board, x, y, rot + 1,
                               IF e.score >= best.score
                               THEN [move  |-> Some([x |-> x, y |-> y,
                                                     rotation_count |-> rot]),
                                     score |-> e.score]
                               ELSE best))

\* determine_next_move, `for rot in 1..=3` on the clone sim, from rot on;
\* best = [move, score]
RECURSIVE BotRotations(_, _, _, _, _)
BotRotations(sim, x, y, rot, best) ==
    IF rot > 3 THEN best
    ELSE With(EvaluateConnections(RotateAt(sim, x, y)), LAMBDA e :
              BotRotations(e.board, x, y, rot + 1,
                           IF e.score > best.score
                           THEN [move  |-> Some([x |-> x, y |-> y,
                                                 rotation_count |-> rot]),
                                 score |-> e.score]
                           ELSE best))

\* determine_next_move, cells n.. in the order x outermost, y innermost
RECURSIVE BotCells(_, _, _)
BotCells(b, n, best) ==
    IF n >= b.width * b.height THEN best
    ELSE LET x == n \div b.height
             y == n % b.height
             tile == GridGet(b, x, y)
         IN  With(IF tile = EmptyCell \/ tile \in {1, 2, 4, 8, 15} THEN best
                  ELSE BotRotations(b, x, y, 1, best),
                  LAMBDA best1 : BotCells(b, n + 1, best1))

\* BotPlayer::determine_next_move: Some(move) or None
DetermineNextMove(b) == BotCells(b, 0, [move |-> None, score |-> 0]).move

(***************************************************************************)
(* GameState.  The operators below take the GameState as a record g and    *)
(* give the GameState the function leaves.                                 *)
(***************************************************************************)
MAX_VS_SCORE         == 100
FREEZE_ZAP_DURATION  == 2000
FREEZE_BOMB_DURATION == 1000
BOT_DELAY_MIN        == 1000
BOT_DELAY_MAX        == 2000

\* world-space y of the centre of row y: GRID_OFFSET_Y + y * TILE_SIZE + half_tile
WorldY(y) == (GRID_OFFSET_Y + y * TILE_SIZE) * Micro + (TILE_SIZE * Micro) \div 2

\* GameBoard::set_tile
SetTile(b, x, y, connection) ==
    IF GridGet(b, x, y) = EmptyCell THEN b ELSE GridSet(b, x, y, connection % 16)

\* bomb_affected_positions, `for y in start_j..end_j` of column x, from y on
RECURSIVE AffectedInColumn(_, _, _, _)
AffectedInColumn(b, x, y, end_j) ==
    IF y >= end_j THEN <<>>
    ELSE (IF GridGet(b, x, y) # EmptyCell THEN <<(<<x, y>>)>> ELSE <<>>)
         \o AffectedInColumn(b, x, y + 1, end_j)

RECURSIVE AffectedFrom(_, _, _, _, _)
AffectedFrom(b, x, end_i, start_j, end_j) ==
    IF x >= end_i THEN <<>>
    ELSE AffectedInColumn(b, x, start_j, end_j)
         \o AffectedFrom(b, x + 1, end_i, start_j, end_j)

\* GameState::bomb_affected_positions
BombAffectedPositions(b, ati, atj, dx, dy) ==
    AffectedFrom(b, SaturatingSub(ati, dx), Min(ati + dx + 1, b.width),
                 SaturatingSub(atj, dy), Min(atj + dy + 1, b.height))

\* apply_multiplier_scores that increments the multiplier before it awards it:
\* a mutant of ScorePin
ScorePinIncrementFirst(g, y, side) ==
    LET x    == IF side = 0 THEN 0 ELSE g.board.width - 1
        dir  == IF side = 0 THEN LEFT ELSE RIGHT
        mult == 1 + (IF side = 0 THEN g.board.multiplier_left[y + 1]
                     ELSE g.board.multiplier_right[y + 1])
    IN  IF GetMarking(g.board, x, y) = "Ok" /\ TileHas(g.board, x, y, dir)
        THEN [g EXCEPT
                !.left_score  = IF g.mode = "Zen" \/ side = 0 THEN @ + mult ELSE @,
                !.right_score = IF g.mode = "Zen" \/ side = 1 THEN @ + mult ELSE @,
                !.score_popups = Append(@, [x |-> IF side = 0 THEN -1 ELSE g.board.width,
                                            y |-> y, value |-> mult, side |-> side]),
                !.board.multiplier_left[y + 1]  = IF side = 0 THEN @ + 1 ELSE @,
                !.board.multiplier_right[y + 1] = IF side = 1 THEN @ + 1 ELSE @]
        ELSE g

\* apply_multiplier_scores, one pin: side 0 is the left pin of row y
ScorePin(g, y, side) ==
    LET x    == IF side = 0 THEN 0 ELSE g.board.width - 1
        dir  == IF side = 0 THEN LEFT ELSE RIGHT
        mult == IF side = 0 THEN g.board.multiplier_left[y + 1]
                ELSE g.board.multiplier_right[y + 1]
    IN  IF GetMarking(g.board, x, y) = "Ok" /\ TileHas(g.board, x, y, dir)
        THEN [g EXCEPT
                !.left_score  = IF g.mode = "Zen" \/ side = 0 THEN @ + mult ELSE @,
                !.right_score = IF g.mode = "Zen" \/ side = 1 THEN @ + mult ELSE @,
                !.score_popups = Append(@, [x |-> IF side = 0 THEN -1 ELSE g.board.width,
                                            y |-> y, value |-> mult, side |-> side]),
                !.board.multiplier_left[y + 1]  = IF side = 0 THEN @ + 1 ELSE @,
                !.board.multiplier_right[y + 1] = IF side = 1 THEN @ + 1 ELSE @]
        ELSE g

\* apply_multiplier_scores, `for y in 0..self.board.height`, from y on
RECURSIVE ScoreRows(_, _)
ScoreRows(g, y) ==
    IF y >= g.board.height THEN g
    ELSE With(ScorePin(ScorePin(g, y, 0), y, 1), LAMBDA g1 : ScoreRows(g1, y + 1))

\* GameState::apply_multiplier_scores
ApplyMultiplierScores(g) == ScoreRows(g, 0)

\* collect_landed_bonuses that credits the bonuses of Ok cells to the right
\* side: a mutant of CollectFrom
RECURSIVE CollectFromOkRight(_, _, _, _)
CollectFromOkRight(b, landed, i, acc) ==
    IF i > Len(landed) THEN acc
    ELSE LET bonus   == landed[i]
             marking == GetMarking(b, bonus.tile_x, bonus.tile_y)
             pts     == BonusPoints(bonus.kind)
             power   == IF bonus.kind \in PowerUpTypes THEN <<bonus.kind>> ELSE <<>>
             popup(side) == IF pts > 0
                            THEN <<[x |-> bonus.tile_x, y |-> bonus.tile_y,
                                    value |-> pts, side |-> side]>>
                            ELSE <<>>
         IN  With(IF marking = "Left"
                  THEN [acc EXCEPT !.left_pts = @ + pts,
                                   !.left_powers = @ \o power,
                                   !.popups = @ \o popup(0)]
                  ELSE IF marking \in {"Right", "Ok"}
                  THEN [acc EXCEPT !.right_pts = @ + pts,
                                   !.right_powers = @ \o power,
                                   !.popups = @ \o popup(1)]
                  ELSE [acc EXCEPT !.uncollected = Append(@, bonus)],
                  LAMBDA acc1 : CollectFromOkRight(b, landed, i + 1, acc1))

\* collect_landed_bonuses, `for bonus in landed`, from index i on;
\* acc = [uncollected, left_pts, right_pts, left_powers, right_powers, popups]
RECURSIVE CollectFrom(_, _, _, _)
CollectFrom(b, landed, i, acc) ==
    IF i > Len(landed) THEN acc
    ELSE LET bonus   == landed[i]
             marking == GetMarking(b, bonus.tile_x, bonus.tile_y)
             pts     == BonusPoints(bonus.kind)
             power   == IF bonus.kind \in PowerUpTypes THEN <<bonus.kind>> ELSE <<>>
             popup(side) == IF pts > 0
                            THEN <<[x |-> bonus.tile_x, y |-> bonus.tile_y,
                                    value |-> pts, side |-> side]>>
                            ELSE <<>>
         IN  With(IF marking \in {"Left", "Ok"}
                  THEN [acc EXCEPT !.left_pts = @ + pts,
                                   !.left_powers = @ \o power,
                                   !.popups = @ \o popup(0)]
                  ELSE IF marking = "Right"
                  THEN [acc EXCEPT !.right_pts = @ + pts,
                                   !.right_powers = @ \o power,
                                   !.popups = @ \o popup(1)]
                  ELSE [acc EXCEPT !.uncollected = Append(@, bonus)],
                  LAMBDA acc1 : CollectFrom(b, landed, i + 1, acc1))

\* `for ptype in powers { inventory.has_.. = true }`, from index i on
RECURSIVE Grant(_, _, _)
Grant(inv, powers, i) ==
    IF i > Len(powers) THEN inv
    ELSE Grant(SetHas(inv, powers[i], TRUE), powers, i + 1)

\* one SoundEvent::PowerUp for each power-up of a sequence
PowerUpSounds(powers) == [k \in 1 .. Len(powers) |-> "PowerUp"]

\* a Collected that gives each side its own points in both modes
CollectedOwnSide(g, acc) ==
    LET scored == acc.left_pts > 0 \/ acc.right_pts > 0
    IN  [g EXCEPT
           !.bonuses.landed = acc.uncollected,
           !.score_popups = @ \o acc.popups,
           !.left_score  = IF ~scored THEN @ ELSE @ + acc.left_pts,
           !.right_score = IF ~scored THEN @ ELSE @ + acc.right_pts,
           !.sound_events = @ \o (IF scored THEN <<"CoinDrop">> ELSE <<>>)
                              \o PowerUpSounds(acc.left_powers)
                              \o PowerUpSounds(acc.right_powers),
           !.power_left  = Grant(@, acc.left_powers, 1),
           !.power_right = Grant(@, acc.right_powers, 1)]

\* collect_landed_bonuses after its `for bonus in landed`, acc what the
\* loop gathered
Collected(g, acc) ==
    LET scored == acc.left_pts > 0 \/ acc.right_pts > 0
        total  == acc.left_pts + acc.right_pts
    IN  [g EXCEPT
           !.bonuses.landed = acc.uncollected,
           !.score_popups = @ \o acc.popups,
           !.left_score  = IF ~scored THEN @
                           ELSE IF g.mode = "Zen" THEN @ + total
                           ELSE @ + acc.left_pts,
           !.right_score = IF ~scored THEN @
                           ELSE IF g.mode = "Zen" THEN @ + total
                           ELSE @ + acc.right_pts,
           !.sound_events = @ \o (IF scored THEN <<"CoinDrop">> ELSE <<>>)
                              \o PowerUpSounds(acc.left_powers)
                              \o PowerUpSounds(acc.right_powers),
           !.power_left  = Grant(@, acc.left_powers, 1),
           !.power_right = Grant(@, acc.right_powers, 1)]

\* GameState::collect_landed_bonuses
CollectLandedBonuses(g) ==
    IF g.bonuses.landed = <<>> THEN g
    ELSE Collected(g, CollectFrom(g.board, g.bonuses.landed, 1,
                          [uncollected |-> <<>>, left_pts |-> 0, right_pts |-> 0,
                           left_powers |-> <<>>, right_powers |-> <<>>,
                           popups |-> <<>>]))

\* the zap branch of check_and_transition without the freeze, the tiles
\* falling at once: a mutant of StartZap
StartZapNoFreeze(g3) ==
    [g3 EXCEPT
       !.pending_bonus = CalculateBonusDrops(g3.board.left_pins_connect,
                                             g3.board.right_pins_connect),
       !.effects = SpawnZapParticles(g3.effects, g3.board),
       !.sound_events = Append(@, "Buzz"),
       !.phase = IF /\ g3.mode = "VsBot"
                    /\ (g3.left_score >= MAX_VS_SCORE
                        \/ g3.right_score >= MAX_VS_SCORE)
                 THEN "GameOver" ELSE "FallingTiles"]

\* the zap branch of check_and_transition ending the game whatever the
\* mode: a mutant of StartZap
StartZapAnyMode(g3) ==
    [g3 EXCEPT
       !.pending_bonus = CalculateBonusDrops(g3.board.left_pins_connect,
                                             g3.board.right_pins_connect),
       !.effects = SpawnZapParticles(g3.effects, g3.board),
       !.sound_events = Append(@, "Buzz"),
       !.anims.freeze_timer = FREEZE_ZAP_DURATION,
       !.phase = IF g3.left_score >= MAX_VS_SCORE \/ g3.right_score >= MAX_VS_SCORE
                 THEN "GameOver" ELSE "FreezeDuringZap"]

\* check_and_transition, `if zap != 0`, g3 the state with the multiplier
\* scores applied
StartZap(g3) ==
    [g3 EXCEPT
       !.pending_bonus = CalculateBonusDrops(g3.board.left_pins_connect,
                                             g3.board.right_pins_connect),
       !.effects = SpawnZapParticles(g3.effects, g3.board),
       !.sound_events = Append(@, "Buzz"),
       !.anims.freeze_timer = FREEZE_ZAP_DURATION,
       !.phase = IF /\ g3.mode = "VsBot"
                    /\ (g3.left_score >= MAX_VS_SCORE
                        \/ g3.right_score >= MAX_VS_SCORE)
                 THEN "GameOver" ELSE "FreezeDuringZap"]

\* GameState::check_and_transition
CheckAndTransition(g) ==
    With(CheckConnections(g.board), LAMBDA r :
    With(CollectLandedBonuses(
             [g EXCEPT !.board = r.board,
                       !.effects = BuildArcsFromBoard(g.effects, r.board)]),
         LAMBDA g2 :
             IF r.result # 0 THEN StartZap(ApplyMultiplierScores(g2))
             ELSE [g2 EXCEPT !.phase = "WaitingForInput"]))

\* do_zap: the rows of column x that are not Ok, from row y up to row 0
RECURSIVE SurvivorRows(_, _, _)
SurvivorRows(b, x, y) ==
    IF y < 0 THEN <<>>
    ELSE (IF GetMarking(b, x, y) # "Ok" THEN <<y>> ELSE <<>>) \o SurvivorRows(b, x, y - 1)

\* do_zap giving every surviving tile of the column a fall animation, moved
\* or not: a mutant of SurvivorFalls
RECURSIVE SurvivorFallsAll(_, _, _, _)
SurvivorFallsAll(height, x, survivors, i) ==
    IF i >= Len(survivors) THEN <<>>
    ELSE <<FallAnimNew(x, height - 1 - i, WorldY(survivors[i + 1]),
                       WorldY(height - 1 - i))>>
         \o SurvivorFallsAll(height, x, survivors, i + 1)

\* do_zap: the fall animations of the surviving tiles of column x, from index i on
RECURSIVE SurvivorFalls(_, _, _, _)
SurvivorFalls(height, x, survivors, i) ==
    IF i >= Len(survivors) THEN <<>>
    ELSE LET old_y == survivors[i + 1]
             new_y == height - 1 - i
         IN  (IF new_y # old_y
              THEN <<FallAnimNew(x, new_y, WorldY(old_y), WorldY(new_y))>> ELSE <<>>)
             \o SurvivorFalls(height, x, survivors, i + 1)

\* do_zap / finish_bomb: the fall animations of the num_new new tiles of
\* column x, from index i on
RECURSIVE NewTileFalls(_, _, _)
NewTileFalls(x, num_new, i) ==
    IF i >= num_new THEN <<>>
    ELSE <<FallAnimNew(x, i, WorldY(i) - (num_new * TILE_SIZE) * Micro, WorldY(i))>>
         \o NewTileFalls(x, num_new, i + 1)

\* do_zap, "Create per-tile fall animations", columns x.. of the board b
\* checked before the removal
RECURSIVE ZapFalls(_, _)
ZapFalls(b, x) ==
    IF x >= b.width THEN <<>>
    ELSE With(SurvivorRows(b, x, b.height - 1), LAMBDA survivors :
              (IF b.height - Len(survivors) = 0 THEN <<>>
               ELSE SurvivorFalls(b.height, x, survivors, 0)
                    \o NewTileFalls(x, b.height - Len(survivors), 0))
              \o ZapFalls(b, x + 1))

\* a reset of the markings that also resets the row multipliers: a mutant
ClearMarkingsAndMultipliers(b) ==
    [b EXCEPT !.markings = [k \in DOMAIN b.markings |-> "None"],
              !.multiplier_left = [k \in DOMAIN @ |-> 1],
              !.multiplier_right = [k \in DOMAIN @ |-> 1]]

ClearMarkingsKept(b) == b

\* do_zap, "Reset all markings to None"
ClearMarkings(b) == [b EXCEPT !.markings = [k \in DOMAIN b.markings |-> "None"]]

\* GameState::do_zap
DoZap(g) ==
    With(CheckConnections(g.board).board, LAMBDA checked :
    With(ClearMarkings(RemoveAndShiftConnectingTiles(checked)), LAMBDA shifted :
    With(SpawnBonuses(g.pending_bonus[1], g.pending_bonus[2], g.pending_bonus[3],
                      shifted, g.effects.rng),
         LAMBDA sp :
             [g EXCEPT
                !.effects.arcs = <<>>,
                !.effects.rng = sp.rng,
                !.sound_events = @ \o <<"CoinDrop", "Explode">>,
                !.board = shifted,
                !.anims.fall_anims = @ \o ZapFalls(checked, 0),
                !.pending_bonus = <<0, 0, 0>>,
                !.bonuses = sp.bonuses,
                !.phase = "FallingTiles"])))

\* finish_bomb, col_counts: the columns of the affected positions in the
\* order they first appear, each with its number of positions
RECURSIVE ColCounts(_, _, _)
ColCounts(positions, i, counts) ==
    IF i > Len(positions) THEN counts
    ELSE LET x == positions[i][1]
         IN  With(IF \E k \in 1 .. Len(counts) : counts[k][1] = x
                  THEN [k \in 1 .. Len(counts) |->
                           IF counts[k][1] = x THEN <<x, counts[k][2] + 1>>
                           ELSE counts[k]]
                  ELSE Append(counts, <<x, 1>>),
                  LAMBDA counts1 : ColCounts(positions, i + 1, counts1))

\* finish_bomb, `for (x, num_new) in col_counts`, from index k on
RECURSIVE BombFalls(_, _)
BombFalls(counts, k) ==
    IF k > Len(counts) THEN <<>>
    ELSE NewTileFalls(counts[k][1], counts[k][2], 0) \o BombFalls(counts, k + 1)

\* finish_bomb that reads the deferred area without taking it: a mutant of
\* FinishBomb
FinishBombKeepsParams(g) ==
    LET p == g.pending_bomb_params
    IN  With(IF p = None THEN g
             ELSE [g EXCEPT
                     !.board = BombTable(g.board, p[1], p[2], p[3], p[4]),
                     !.anims.fall_anims =
                         @ \o BombFalls(ColCounts(BombAffectedPositions(
                                  g.board, p[1], p[2], p[3], p[4]), 1, <<>>), 1)],
             LAMBDA g1 :
                 IF g1.anims.fall_anims # <<>>
                 THEN [g1 EXCEPT !.phase = "FallingTiles"]
                 ELSE With(CheckConnections(g1.board).board, LAMBDA c :
                           CheckAndTransition(
                               [g1 EXCEPT !.board = c,
                                          !.effects = BuildArcsFromBoard(
                                                          g1.effects, c)])))

\* GameState::finish_bomb
FinishBomb(g) ==
    LET p == g.pending_bomb_params
    IN  With(IF p = None THEN g
             ELSE [g EXCEPT
                     !.pending_bomb_params = None,
                     !.board = BombTable(g.board, p[1], p[2], p[3], p[4]),
                     !.anims.fall_anims =
                         @ \o BombFalls(ColCounts(BombAffectedPositions(
                                  g.board, p[1], p[2], p[3], p[4]), 1, <<>>), 1)],
             LAMBDA g1 :
                 IF g1.anims.fall_anims # <<>>
                 THEN [g1 EXCEPT !.phase = "FallingTiles"]
                 ELSE With(CheckConnections(g1.board).board, LAMBDA c :
                           CheckAndTransition(
                               [g1 EXCEPT !.board = c,
                                          !.effects = BuildArcsFromBoard(
                                                          g1.effects, c)])))

\* the power-up that clears its area at once, before the freeze: a mutant
\* of DeferBomb
DeferBombClearsNow(g, tx, ty, dx, dy) ==
    [g EXCEPT
       !.effects = SpawnExplosionParticles(
                       @, BombAffectedPositions(g.board, tx, ty, dx, dy)),
       !.board = BombTable(g.board, tx, ty, dx, dy),
       !.pending_bomb_params = <<tx, ty, dx, dy>>,
       !.bonuses = NoBonuses,
       !.sound_events = Append(@, "Bomb"),
       !.anims.freeze_timer = FREEZE_BOMB_DURATION,
       !.phase = "FreezeDuringBomb"]

\* apply_power_up, Bomb and Arrow: the deferred clear of the area (dx, dy)
DeferBomb(g, tx, ty, dx, dy) ==
    [g EXCEPT
       !.effects = SpawnExplosionParticles(
                       @, BombAffectedPositions(g.board, tx, ty, dx, dy)),
       !.pending_bomb_params = <<tx, ty, dx, dy>>,
       !.bonuses = NoBonuses,
       !.sound_events = Append(@, "Bomb"),
       !.anims.freeze_timer = FREEZE_BOMB_DURATION,
       !.phase = "FreezeDuringBomb"]

\* GameState::apply_power_up
ApplyPowerUp(g, ptype, tx, ty) ==
    CASE ptype = "Bomb"  -> DeferBomb(g, tx, ty, 2, 2)
      [] ptype = "Cross" ->
            CheckAndTransition([g EXCEPT !.board = SetTile(g.board, tx, ty, 15),
                                         !.sound_events = Append(@, "PowerUp")])
      [] ptype = "Arrow" -> DeferBomb(g, tx, ty, 0, g.board.height)

\* process_input that reads the tap and leaves it pending: a mutant
ProcessInputKeepsTap(g) ==
    IF g.pending_tap = None THEN g
    ELSE [g EXCEPT
            !.board = RotateAt(g.board, g.pending_tap[1], g.pending_tap[2]),
            !.anims.rotate_anims =
                Append(@, RotateAnimNew(g.pending_tap[1], g.pending_tap[2], 1, FALSE)),
            !.sound_events = Append(@, "Rotate"),
            !.phase = "RotatingTile"]

\* GameState::process_input
ProcessInput(g) ==
    IF g.pending_tap = None THEN g
    ELSE LET tx == g.pending_tap[1]
             ty == g.pending_tap[2]
             g0 == [g EXCEPT !.pending_tap = None]
         IN  IF ConsumeArmed(g.power_left).ret # Nil
             THEN ApplyPowerUp([g0 EXCEPT !.power_left = ConsumeArmed(@).inv],
                               ConsumeArmed(g.power_left).ret, tx, ty)
             ELSE IF ConsumeArmed(g.power_right).ret # Nil
             THEN ApplyPowerUp([g0 EXCEPT !.power_right = ConsumeArmed(@).inv],
                               ConsumeArmed(g.power_right).ret, tx, ty)
             ELSE [g0 EXCEPT
                     !.board = RotateAt(g.board, tx, ty),
                     !.anims.rotate_anims = Append(@, RotateAnimNew(tx, ty, 1, FALSE)),
                     !.sound_events = Append(@, "Rotate"),
                     !.phase = "RotatingTile"]

\* `for _ in 0..mv.rotation_count { tile.rotate() }`
RECURSIVE RotateTimes(_, _, _, _)
RotateTimes(b, x, y, n) ==
    IF n = 0 THEN b ELSE RotateTimes(RotateAt(b, x, y), x, y, n - 1)

\* try_bot_move, `if let Some(mv) = ..`: the move made, the delay drawn
BotMoves(g, mv) ==
    With(NextInt(g.effects.rng, 1000), LAMBDA d :
         [g EXCEPT
            !.board = RotateTimes(g.board, mv.x, mv.y, mv.rotation_count),
            !.anims.rotate_anims =
                Append(@, RotateAnimNew(mv.x, mv.y, mv.rotation_count, TRUE)),
            !.phase = "RotatingTile",
            !.effects.rng = d.rng,
            !.bot_delay_timer =
                BOT_DELAY_MIN + (d.val * (BOT_DELAY_MAX - BOT_DELAY_MIN)) \div 1000])

\* a try_bot_move that does not look at the phase
TryBotMoveAnyPhase(g, dt) ==
    IF ~g.bot_enabled THEN g
    ELSE IF g.bot_delay_timer > 0 THEN [g EXCEPT !.bot_delay_timer = @ - dt]
    ELSE With(DetermineNextMove(g.board), LAMBDA found :
              IF found = None THEN g ELSE BotMoves(g, found[1]))

\* GameState::try_bot_move
TryBotMove(g, dt) ==
    IF ~g.bot_enabled \/ g.phase # "WaitingForInput" THEN g
    ELSE IF g.bot_delay_timer > 0 THEN [g EXCEPT !.bot_delay_timer = @ - dt]
    ELSE With(DetermineNextMove(g.board), LAMBDA found :
              IF found = None THEN g ELSE BotMoves(g, found[1]))

\* tick that still takes the tap when the game is over: a mutant of TickPhase
TickPhaseAfterEnd(g, dt) ==
    CASE g.phase \in {"WaitingForInput", "GameOver"} -> TryBotMove(ProcessInput(g), dt)
      [] g.phase = "RotatingTile" ->
            With([g EXCEPT !.anims = TickRotations(@, dt)], LAMBDA g1 :
                 IF g1.anims.rotate_anims = <<>> THEN CheckAndTransition(g1) ELSE g1)
      [] g.phase = "FreezeDuringZap" ->
            With(TickFreeze(g.anims, dt), LAMBDA f :
                 IF f.ret THEN DoZap([g EXCEPT !.anims = f.anims])
                 ELSE [g EXCEPT !.anims = f.anims])
      [] g.phase = "FreezeDuringBomb" ->
            With(TickFreeze(g.anims, dt), LAMBDA f :
                 IF f.ret THEN FinishBomb([g EXCEPT !.anims = f.anims])
                 ELSE [g EXCEPT !.anims = f.anims])
      [] g.phase = "FallingTiles" ->
            With([g EXCEPT !.anims = TickFalls(@), !.bonuses = TickFalling(@)],
                 LAMBDA g1 :
                     IF g1.anims.fall_anims = <<>> /\ g1.bonuses.falling = <<>>
                     THEN CheckAndTransition(g1) ELSE g1)
      [] OTHER -> g

\* GameState::tick, `match self.phase`
TickPhase(g, dt) ==
    CASE g.phase = "WaitingForInput" -> TryBotMove(ProcessInput(g), dt)
      [] g.phase = "RotatingTile" ->
            With([g EXCEPT !.anims = TickRotations(@, dt)], LAMBDA g1 :
                 IF g1.anims.rotate_anims = <<>> THEN CheckAndTransition(g1) ELSE g1)
      [] g.phase = "FreezeDuringZap" ->
            With(TickFreeze(g.anims, dt), LAMBDA f :
                 IF f.ret THEN DoZap([g EXCEPT !.anims = f.anims])
                 ELSE [g EXCEPT !.anims = f.anims])
      [] g.phase = "FreezeDuringBomb" ->
            With(TickFreeze(g.anims, dt), LAMBDA f :
                 IF f.ret THEN FinishBomb([g EXCEPT !.anims = f.anims])
                 ELSE [g EXCEPT !.anims = f.anims])
      [] g.phase = "FallingTiles" ->
            With([g EXCEPT !.anims = TickFalls(@), !.bonuses = TickFalling(@)],
                 LAMBDA g1 :
                     IF g1.anims.fall_anims = <<>> /\ g1.bonuses.falling = <<>>
                     THEN CheckAndTransition(g1) ELSE g1)
      [] OTHER -> g      \* FallingBonuses, GameOver: nothing to update

\* BonusState::tick_idle
TickIdle(bs, dt) == bs

\* A RenderInstance: the atlas it is drawn from, its column (x: -1 is the
\* column of the left pins, width that of the right pins), its row or, of a
\* bonus, its current_y (y), the tile's mask or the bonus kind (sprite_id)
\* and its UV cell count (flags).
RenderInstance(atlas, x, y, sprite_id, flags) ==
    [atlas |-> atlas, x |-> x, y |-> y, sprite_id |-> sprite_id, flags |-> flags]

\* rebuild_render_buffer, `for y in 0..self.board.height`: a column of pins
PinInstances(b, x) ==
    [k \in 1 .. b.height |-> RenderInstance("pins", x, k - 1, 0, 1)]

\* rebuild_render_buffer, the game tiles: the cells that hold a tile, column
\* by column
TileInstances(b) ==
    SelectSeq([k \in 1 .. b.width * b.height |->
                  RenderInstance("normal", (k - 1) \div b.height, (k - 1) % b.height,
                                 b.tiles[k], 1)],
              LAMBDA r : r.sprite_id # EmptyCell)

\* rebuild_render_buffer, `for bonus in self.bonuses.all_bonuses()`
BonusInstances(bs) ==
    With(bs.falling \o bs.landed, LAMBDA all :
         [k \in 1 .. Len(all) |->
             RenderInstance("bonus", all[k].tile_x, all[k].current_y, all[k].kind, 1)])

\* rebuild_render_buffer, the rotation arrow overlays
ArrowInstances(g) ==
    IF g.phase # "RotatingTile" THEN <<>>
    ELSE [k \in 1 .. Len(g.anims.rotate_anims) |->
             RenderInstance("arrows", g.anims.rotate_anims[k].x,
                            g.anims.rotate_anims[k].y,
                            IF g.anims.rotate_anims[k].is_bot THEN 4 ELSE 2, 2)]

\* rebuild_render_buffer that emits both pin columns after the tiles: a mutant
RebuildPinsAfterTiles(g) ==
    [g EXCEPT !.render_buffer =
        TileInstances(g.board) \o PinInstances(g.board, -1)
        \o PinInstances(g.board, g.board.width)
        \o BonusInstances(g.bonuses) \o ArrowInstances(g)]

\* GameState::rebuild_render_buffer
RebuildRenderBuffer(g) ==
    [g EXCEPT !.render_buffer =
        PinInstances(g.board, -1) \o TileInstances(g.board)
        \o PinInstances(g.board, g.board.width)
        \o BonusInstances(g.bonuses) \o ArrowInstances(g)]

\* a tick that drops the tap it cannot apply
TickGameDropsTap(g, dt) ==
    With(TickPhase([g EXCEPT !.sound_events = <<>>, !.score_popups = <<>>,
                             !.pending_tap = IF g.phase = "WaitingForInput"
                                             THEN @ ELSE None], dt),
         LAMBDA g1 : RebuildRenderBuffer([g1 EXCEPT !.effects = EffectsTick(@, dt),
                                                    !.bonuses = TickIdle(@, dt)]))

\* GameState::tick
TickGame(g, dt) ==
    With(TickPhase([g EXCEPT !.sound_events = <<>>, !.score_popups = <<>>], dt),
         LAMBDA g1 : RebuildRenderBuffer([g1 EXCEPT !.effects = EffectsTick(@, dt),
                                                    !.bonuses = TickIdle(@, dt)]))

\* queue_tap without the bounds check: a mutant
QueueTapAnywhere(g, tile_x, tile_y) == [g EXCEPT !.pending_tap = <<tile_x, tile_y>>]

\* GameState::queue_tap
QueueTapGame(g, tile_x, tile_y) ==
    IF tile_x < g.board.width /\ tile_y < g.board.height
    THEN [g EXCEPT !.pending_tap = <<tile_x, tile_y>>]
    ELSE g

\* bridge get_power_state: the packed u16
GetPowerState(g) ==
    LET bit(on, k) == IF on THEN Pow2(k) ELSE 0
    IN  bit(g.power_left.has_bomb, 0) + bit(g.power_left.has_cross, 1)
        + bit(g.power_left.has_arrow, 2)
        + bit(g.power_right.has_bomb, 3) + bit(g.power_right.has_cross, 4)
        + bit(g.power_right.has_arrow, 5)
        + bit(g.power_left.armed = "Bomb", 6) + bit(g.power_left.armed = "Cross", 7)
        + bit(g.power_left.armed = "Arrow", 8)
        + bit(g.power_right.armed = "Bomb", 9) + bit(g.power_right.armed = "Cross", 10)
        + bit(g.power_right.armed = "Arrow", 11)

(***************************************************************************)
(* Spec: one GameState driven through tick, queue_tap, toggle_arm and      *)
(* enable_bot.                                                             *)
(***************************************************************************)
Phases == {"WaitingForInput", "RotatingTile", "FallingTiles", "FreezeDuringZap",
           "FreezeDuringBomb", "GameOver", "FallingBonuses"}
Modes  == {"Zen", "VsBot"}

\* frame times, in milliseconds: an eighth of a second and a second
Dts == {125, 1000}

\* a frame that does not outlast a rotation animation
Short(dt) == dt < ROTATE_DURATION

\* GameState::new_with_mode, on a board of the given size
NewGame(seed, game_mode, width, height) ==
    CheckAndTransition(
        [board |-> NewBoard(width, height, DEFAULT_MISSING_LINKS, seed),
         phase |-> "WaitingForInput",
         mode |-> game_mode,
         left_score |-> 0,
         right_score |-> 0,
         bot_enabled |-> (game_mode = "VsBot"),
         bot_delay_timer |-> 0,
         anims |-> NewAnims,
         effects |-> NewEffects(seed),
         bonuses |-> NoBonuses,
         power_left |-> NoPowers,
         power_right |-> NoPowers,
         pending_bonus |-> <<0, 0, 0>>,
         pending_bomb_params |-> None,
         sound_events |-> <<>>,
         score_popups |-> <<>>,
         pending_tap |-> None,
         render_buffer |-> <<>>])

\* the GameState as a record
Game ==
    [board |-> board, phase |-> phase, mode |-> mode,
     left_score |-> left_score, right_score |-> right_score,
     bot_enabled |-> bot_enabled, bot_delay_timer |-> bot_delay_timer,
     anims |-> anims, effects |-> effects, bonuses |-> bonuses,
     power_left |-> power_left, power_right |-> power_right,
     pending_bonus |-> pending_bonus, pending_bomb_params |-> pending_bomb_params,
     sound_events |-> sound_events, score_popups |-> score_popups,
     pending_tap |-> pending_tap, render_buffer |-> render_buffer]

\* the GameState is the record g
Becomes0(g) ==
    /\ board = g.board /\ phase = g.phase /\ mode = g.mode
    /\ left_score = g.left_score /\ right_score = g.right_score
    /\ bot_enabled = g.bot_enabled /\ bot_delay_timer = g.bot_delay_timer
    /\ anims = g.anims /\ effects = g.effects /\ bonuses = g.bonuses
    /\ power_left = g.power_left /\ power_right = g.power_right
    /\ pending_bonus = g.pending_bonus
    /\ pending_bomb_params = g.pending_bomb_params
    /\ sound_events = g.sound_events /\ score_popups = g.score_popups
    /\ pending_tap = g.pending_tap /\ render_buffer = g.render_buffer

\* the GameState becomes the record g
Becomes(g) ==
    /\ board' = g.board /\ phase' = g.phase /\ mode' = g.mode
    /\ left_score' = g.left_score /\ right_score' = g.right_score
    /\ bot_enabled' = g.bot_enabled /\ bot_delay_timer' = g.bot_delay_timer
    /\ anims' = g.anims /\ effects' = g.effects /\ bonuses' = g.bonuses
    /\ power_left' = g.power_left /\ power_right' = g.power_right
    /\ pending_bonus' = g.pending_bonus
    /\ pending_bomb_params' = g.pending_bomb_params
    /\ sound_events' = g.sound_events /\ score_popups' = g.score_popups
    /\ pending_tap' = g.pending_tap /\ render_buffer' = g.render_buffer

\* The host writes the public fields of a fresh GameState, as the test
\* game_over_at_max_score does with left_score: the score the left side has
\* reached and the three power-ups it has collected by then.  Seed 7 deals a
\* board one rotation away from a zap, seed 9 a board that zaps as dealt.
Starts ==
    {[seed |-> 7, mode |-> "Zen", score |-> MAX_VS_SCORE],
     [seed |-> 9, mode |-> "Zen", score |-> 0]}
    \cup {[seed |-> 7, mode |-> "VsBot", score |-> sc] :
             sc \in {0, MAX_VS_SCORE - 1, MAX_VS_SCORE}}

AllPowers == [NoPowers EXCEPT !.has_bomb = TRUE, !.has_cross = TRUE, !.has_arrow = TRUE]

Init ==
    /\ \E st \in Starts :
       \E g \in {NewGame(st.seed, st.mode, GameWidth, GameHeight)} :
          Becomes0([g EXCEPT !.left_score = st.score, !.power_left = AllPowers])
    /\ calls = [tick |-> 0, short |-> 0, input |-> 0]
    /\ held = 0
    /\ waited = [now |-> 0, at_move |-> 0]
    /\ last = [op |-> "new"]
    /\ pre = IdleBoard /\ edits = 0
    /\ rng_a = IdleRng /\ rng_b = IdleRng /\ out_a = <<>> /\ out_b = <<>>
    /\ one_tile = IdleTile /\ timers = IdleTimers

harnessVars == <<pre, edits, rngVars, one_tile, timers>>

FreezePhases == {"FreezeDuringZap", "FreezeDuringBomb"}

\* a frame of a fall has been played and the fall is not over
MidFall ==
    \/ \E i \in DOMAIN anims.fall_anims : anims.fall_anims[i].speed # 0
    \/ \E i \in DOMAIN bonuses.falling : bonuses.falling[i].speed # 0

\* the host may make another input call (queue_tap, toggle_arm, enable_bot):
\* it has calls left, and it makes none between the frames of a fall
MayCall == calls.input < MaxInputs /\ ~MidFall

\* a rotation animation the bot has just started (new_with_source(.., true))
BotStarted(a) ==
    \E i \in DOMAIN a.rotate_anims :
        a.rotate_anims[i].is_bot /\ a.rotate_anims[i].progress = 0

\* the waiting time after a tick of dt that began in phase p and left the
\* animations a
Waited(p, dt, a) ==
    LET now == IF p = "WaitingForInput" THEN waited.now + dt ELSE waited.now
    IN  [now |-> now,
         at_move |-> IF p = "WaitingForInput" /\ BotStarted(a) THEN now
                     ELSE waited.at_move]

\* state.tick(dt); held is the time handed to the ticks that began in the
\* current freeze.  A fall ends by itself, its ticks are not counted.
Tick(dt) ==
    /\ \/ phase = "FallingTiles"
       \/ calls.tick < MaxTicks /\ (Short(dt) => calls.short < MaxShortTicks)
    /\ \E g \in {TickGame(Game, dt)} :
          /\ Becomes(g)
          /\ waited' = Waited(phase, dt, g.anims)
    /\ held' = IF phase \in FreezePhases THEN held + dt ELSE 0
    /\ calls' = IF phase = "FallingTiles" THEN calls
                ELSE [calls EXCEPT !.tick = @ + 1,
                                   !.short = IF Short(dt) THEN @ + 1 ELSE @]
    /\ last' = [op |-> "tick"]
    /\ UNCHANGED harnessVars

\* bridge tap_tile(x, y): state.queue_tap(tile_x, tile_y)
QueueTap(tile_x, tile_y) ==
    /\ MayCall
    /\ \E g \in {QueueTapGame(Game, tile_x, tile_y)} : Becomes(g)
    /\ calls' = [calls EXCEPT !.input = @ + 1]
    /\ last' = [op |-> "queue_tap", tile_x |-> tile_x, tile_y |-> tile_y]
    /\ UNCHANGED <<held, waited, harnessVars>>

\* bridge arm_power_left(ptype) / arm_power_right(ptype):
\* power_left.toggle_arm(ptype) / power_right.toggle_arm(ptype)
ArmPower(side, ptype) ==
    /\ MayCall
    /\ power_left' = IF side = "left" THEN ToggleArm(power_left, ptype).inv
                     ELSE power_left
    /\ power_right' = IF side = "right" THEN ToggleArm(power_right, ptype).inv
                      ELSE power_right
    /\ calls' = [calls EXCEPT !.input = @ + 1]
    /\ last' = [op |-> "toggle_arm", side |-> side, ptype |-> ptype,
                ret |-> ToggleArm(IF side = "left" THEN power_left ELSE power_right,
                                  ptype).ret]
    /\ UNCHANGED <<board, phase, mode, left_score, right_score, bot_enabled,
                   bot_delay_timer, anims, effects, bonuses, pending_bonus,
                   pending_bomb_params, sound_events, score_popups, pending_tap,
                   render_buffer, held, waited, harnessVars>>

\* bridge enable_bot(enabled): g.bot_enabled = enabled
EnableBot(enabled) ==
    /\ MayCall
    /\ bot_enabled' = enabled
    /\ calls' = [calls EXCEPT !.input = @ + 1]
    /\ last' = [op |-> "enable_bot", enabled |-> enabled]
    /\ UNCHANGED <<board, phase, mode, left_score, right_score,
                   bot_delay_timer, anims, effects, bonuses, power_left, power_right,
                   pending_bonus, pending_bomb_params, sound_events, score_popups,
                   pending_tap, render_buffer, held, waited, harnessVars>>

\* the cells a host taps: one of each column of the board, and one beyond
\* each edge
TapCells == {<<x, Min(x, GameHeight - 1)>> : x \in 0 .. GameWidth - 1}
            \cup {<<GameWidth, 0>>, <<0, GameHeight>>}

Next ==
    \/ \E dt \in Dts : Tick(dt)
    \/ \E c \in TapCells : QueueTap(c[1], c[2])
    \/ \E side \in {"left", "right"}, ptype \in PowerUpTypes : ArmPower(side, ptype)
    \/ \E enabled \in BOOLEAN : EnableBot(enabled)

Spec == Init /\ [][Next]_vars

(***************************************************************************)
(* Properties of the game.  A step of Spec is a tick or an input call;     *)
(* `held` and `calls` say which.                                           *)
(***************************************************************************)
\* the step is a tick: an input call counts itself in calls.input
Ticked == calls'.input = calls.input

\* the power-up the next tap consumes: the left side's armed type, else the
\* right side's
Armed == IF power_left.armed # Nil THEN power_left.armed ELSE power_right.armed

\* the step is a tick whose re-check of the connections found a zap: the
\* tick empties sound_events and only that branch pushes Buzz
ZapFound == Ticked /\ \E i \in DOMAIN sound_events' : sound_events'[i] = "Buzz"

\* the cells of the game board
GameCells == (0 .. GameWidth - 1) \X (0 .. GameHeight - 1)

\* the phase may go from `from` to `to` in a step that begins in this state
Allowed(from, to) ==
    CASE from = "WaitingForInput" ->
            \/ /\ to = "RotatingTile"
               /\ (pending_tap # None /\ Armed = Nil) \/ bot_enabled
            \/ /\ to = "FreezeDuringBomb"
               /\ pending_tap # None /\ Armed \in {"Bomb", "Arrow"}
            \/ /\ to \in {"FreezeDuringZap", "GameOver"}
               /\ pending_tap # None /\ Armed = "Cross"
      [] from = "RotatingTile" ->
            /\ to \in {"FreezeDuringZap", "WaitingForInput", "GameOver"}
            /\ anims'.rotate_anims = <<>>
      [] from \in FreezePhases -> to = "FallingTiles"
      [] from = "FallingTiles" ->
            to \in {"FreezeDuringZap", "WaitingForInput", "GameOver"}
      [] OTHER -> FALSE

\* C3: over any sequence of tick, queue_tap and arm calls the phase changes
\* only in a tick and only along WaitingForInput -> RotatingTile (a tap with
\* nothing armed, or a bot move), WaitingForInput -> FreezeDuringBomb (a tap
\* with Bomb or Arrow armed), WaitingForInput -> FreezeDuringZap | GameOver (a
\* tap with Cross armed), RotatingTile -> FreezeDuringZap | WaitingForInput |
\* GameOver (no rotation animation left), a freeze -> FallingTiles,
\* FallingTiles -> FreezeDuringZap | WaitingForInput | GameOver; the phase is
\* never FallingBonuses.
C3_Transitions ==
    [][/\ phase # "FallingBonuses" /\ phase' # "FallingBonuses"
       /\ phase' # phase => Ticked /\ Allowed(phase, phase')]_vars

\* a game back in WaitingForInput after a rotation, a zap and the fall of
\* the new tiles
C3_Witness ==
    /\ phase = "WaitingForInput"
    /\ board.new_elements > GameWidth * GameHeight
    /\ calls.tick = MaxTicks

\* C4: the phase becomes GameOver exactly in a tick whose re-check finds a
\* zap while the mode is VsBot and, after that zap's scoring, left_score or
\* right_score is at least MAX_VS_SCORE; so the phase is GameOver in VsBot
\* mode only, with such a score.
C4_GameOver ==
    /\ [](phase = "GameOver" =>
            /\ mode = "VsBot"
            /\ left_score >= MAX_VS_SCORE \/ right_score >= MAX_VS_SCORE)
    /\ [][(phase # "GameOver" /\ phase' = "GameOver")
          <=> /\ ZapFound
              /\ mode = "VsBot"
              /\ left_score' >= MAX_VS_SCORE \/ right_score' >= MAX_VS_SCORE]_vars

\* a VsBot game just ended by the zap that took the left score from
\* MAX_VS_SCORE - 1 to MAX_VS_SCORE or beyond
C4_Witness ==
    /\ phase = "GameOver" /\ mode = "VsBot"
    /\ \E i \in DOMAIN score_popups :
          /\ score_popups[i].side = 0
          /\ left_score - score_popups[i].value < MAX_VS_SCORE

\* C5: once the phase is GameOver no tick, queue_tap or arm call changes the
\* phase, the grid, the markings, the multipliers or either score.
C5_Terminal ==
    [][phase = "GameOver" =>
          /\ phase' = "GameOver"
          /\ board'.tiles = board.tiles
          /\ board'.markings = board.markings
          /\ board'.multiplier_left = board.multiplier_left
          /\ board'.multiplier_right = board.multiplier_right
          /\ left_score' = left_score
          /\ right_score' = right_score]_vars

\* a finished game that has been ticked again (the Buzz of its last zap is
\* gone) with a tap pending and a power-up armed
C5_Witness ==
    /\ phase = "GameOver"
    /\ sound_events = <<>>
    /\ pending_tap # None
    /\ power_left.armed # Nil

\* the pins apply_multiplier_scores finds to score on board b, rows y.. in the
\* order it visits them: side 0 is the left pin
RECURSIVE ScoringPins(_, _)
ScoringPins(b, y) ==
    IF y >= b.height THEN <<>>
    ELSE (IF GetMarking(b, 0, y) = "Ok" /\ HasConnection(GridGet(b, 0, y), LEFT)
          THEN <<[y |-> y, side |-> 0]>> ELSE <<>>)
      \o (IF /\ GetMarking(b, b.width - 1, y) = "Ok"
             /\ HasConnection(GridGet(b, b.width - 1, y), RIGHT)
          THEN <<[y |-> y, side |-> 1]>> ELSE <<>>)
      \o ScoringPins(b, y + 1)

\* the sum of the values of the popups of a side, from index i on
RECURSIVE Points(_, _, _)
Points(popups, side, i) ==
    IF i > Len(popups) THEN 0
    ELSE (IF popups[i].side = side THEN popups[i].value ELSE 0)
         + Points(popups, side, i + 1)

\* a popup over a pin, not over a tile of the grid
IsPinPopup(p) == p.x < 0 \/ p.x >= GameWidth
IsCoinPopup(p) == ~IsPinPopup(p)

\* C6: when a re-check finds a zap, every row whose left pin cell is Ok with a
\* LEFT connection and every row whose right pin cell is Ok with a RIGHT
\* connection is awarded the multiplier the row had before the tick (to both
\* scores in Zen mode, to the pin's side in VsBot mode), one popup per such
\* pin carries that value and side, and that multiplier and no other grows,
\* by exactly 1.  The scores grow by these awards and the coins collected in
\* the same re-check only.
C6_Scores ==
    [][ZapFound =>
          LET pins   == ScoringPins(board', 0)
              before(k) == IF pins[k].side = 0
                           THEN board.multiplier_left[pins[k].y + 1]
                           ELSE board.multiplier_right[pins[k].y + 1]
              shown  == SelectSeq(score_popups', IsPinPopup)
              coins  == SelectSeq(score_popups', IsCoinPopup)
              left   == Points(shown, 0, 1) + Points(coins, 0, 1)
              right  == Points(shown, 1, 1) + Points(coins, 1, 1)
              grown(y, side) == IF \E k \in DOMAIN pins : pins[k] = [y |-> y, side |-> side]
                                THEN 1 ELSE 0
          IN  /\ Len(shown) = Len(pins)
              /\ \A k \in DOMAIN pins :
                    /\ shown[k].value = before(k)
                    /\ shown[k].side = pins[k].side
                    /\ shown[k].y = pins[k].y
              /\ \A y \in 0 .. GameHeight - 1 :
                    /\ board'.multiplier_left[y + 1]
                          = board.multiplier_left[y + 1] + grown(y, 0)
                    /\ board'.multiplier_right[y + 1]
                          = board.multiplier_right[y + 1] + grown(y, 1)
              /\ left_score' = left_score + left + (IF mode = "Zen" THEN right ELSE 0)
              /\ right_score' = right_score + right + (IF mode = "Zen" THEN left ELSE 0)]_vars

\* a zap just found by a tick of a VsBot game: a left pin and a right pin
\* have scored, each for its own side
C6_Witness ==
    /\ phase \in {"FreezeDuringZap", "GameOver"}
    /\ mode = "VsBot" /\ calls.tick > 0
    /\ right_score > 0
    /\ \E i, j \in DOMAIN score_popups :
          /\ score_popups[i].x < 0 /\ score_popups[i].side = 0
          /\ score_popups[j].x >= GameWidth /\ score_popups[j].side = 1

\* a 4-bit mask shifted left cyclically
RotL4(mask) == ((mask * 2) % 16) + (mask \div 8)

\* C7: a tick that begins in WaitingForInput with a tap pending and no
\* power-up armed on either side rotates the tapped tile once (its mask is
\* shifted left cyclically in 4 bits), leaves every other tile as it was,
\* starts one rotation animation at the tapped cell, emits the Rotate sound
\* and ends in RotatingTile.
C7_TapRotates ==
    [][/\ Ticked
       /\ phase = "WaitingForInput"
       /\ pending_tap # None
       /\ power_left.armed = Nil /\ power_right.armed = Nil
       => /\ \A c \in GameCells :
                GridGet(board', c[1], c[2])
                   = IF c = pending_tap THEN RotL4(GridGet(board, c[1], c[2]))
                     ELSE GridGet(board, c[1], c[2])
          /\ Len(anims'.rotate_anims) = Len(anims.rotate_anims) + 1
          /\ SubSeq(anims'.rotate_anims, 1, Len(anims.rotate_anims)) = anims.rotate_anims
          /\ anims'.rotate_anims[Len(anims'.rotate_anims)].x = pending_tap[1]
          /\ anims'.rotate_anims[Len(anims'.rotate_anims)].y = pending_tap[2]
          /\ \E i \in DOMAIN sound_events' : sound_events'[i] = "Rotate"
          /\ phase' = "RotatingTile"]_vars

\* a tap just taken: the Rotate sound of process_input, and one rotation
\* animation not yet played
C7_Witness ==
    /\ phase = "RotatingTile"
    /\ sound_events = <<"Rotate">>
    /\ Len(anims.rotate_anims) = 1
    /\ anims.rotate_anims[1].progress = 0

\* the length of a freeze
FreezeDuration(p) ==
    IF p = "FreezeDuringZap" THEN FREEZE_ZAP_DURATION ELSE FREEZE_BOMB_DURATION

\* C8: a freeze lasts FREEZE_ZAP_DURATION (2.0 s), respectively
\* FREEZE_BOMB_DURATION (1.0 s): a tick that begins in the freeze stays in it
\* while the dt handed to the freeze so far is below the duration, and leaves
\* it for FallingTiles, with the zap or the bomb carried out, on the first
\* tick at which that dt reaches the duration; the timer then rests at zero
\* and tick_freeze does not report an expiry again.
C8_Freeze ==
    /\ [](phase \in FreezePhases =>
            /\ held < FreezeDuration(phase)
            /\ anims.freeze_timer = FreezeDuration(phase) - held)
    /\ [][Ticked /\ phase \in FreezePhases =>
            IF held' < FreezeDuration(phase)
            THEN phase' = phase
            ELSE /\ phase' = "FallingTiles"
                 /\ anims'.freeze_timer = 0
                 /\ \A dt \in Dts : ~TickFreeze(anims', dt).ret
                 /\ phase = "FreezeDuringZap" =>
                       \A c \in GameCells : GetMarking(board', c[1], c[2]) = "None"
                 /\ phase = "FreezeDuringBomb" =>
                       pending_bomb_params # None /\ pending_bomb_params' = None]_vars

\* a zap freeze just left by a tick that took the held time past the duration
C8_Witness ==
    /\ phase = "FallingTiles"
    /\ held > FREEZE_ZAP_DURATION
    /\ ~MidFall

(***************************************************************************)
(* SpecTile: one Tile, made with any connections byte (Tile::new keeps the *)
(* low four bits, the public field takes any u8), and rotated.             *)
(***************************************************************************)
IdleUnits ==
    /\ board = IdleBoard /\ pre = IdleBoard /\ edits = 0
    /\ rng_a = IdleRng /\ rng_b = IdleRng /\ out_a = <<>> /\ out_b = <<>>
    /\ IdleGame

InitTile ==
    /\ \E c \in Bytes : one_tile = [connections |-> c, made |-> c, turns |-> 0]
    /\ timers = IdleTimers
    /\ last = [op |-> "new"]
    /\ IdleUnits

\* one_tile.rotate()
TileRotateCall ==
    /\ one_tile.turns < MaxTurns
    /\ one_tile' = [one_tile EXCEPT !.connections = TileRotate(@), !.turns = @ + 1]
    /\ last' = [op |-> "rotate"]
    /\ UNCHANGED <<boardVars, rngVars, timers, gameVars>>

NextTile == TileRotateCall

SpecTile == InitTile /\ [][NextTile]_vars

Directions == {RIGHT, UP, LEFT, DOWN}

\* where a rotation takes the bit of a direction
Turned(dir) ==
    CASE dir = RIGHT -> UP
      [] dir = UP    -> LEFT
      [] dir = LEFT  -> DOWN
      [] dir = DOWN  -> RIGHT

\* C11: Tile::rotate is a cyclic left shift inside the 4-bit field: a tile
\* whose mask is in 0..15 has, after a rotation, the bit of Turned(d) exactly
\* when it had the bit of d; four rotations give back the mask it started
\* with; and whatever byte a tile holds (0xFF too), it holds a mask in 0..15
\* after every rotation.
C11_Rotate ==
    /\ [](one_tile.turns > 0 => one_tile.connections \in 0 .. 15)
    /\ [](one_tile.made \in 0 .. 15 /\ one_tile.turns = 4 => one_tile.connections = one_tile.made)
    /\ [][one_tile'.turns = one_tile.turns + 1 /\ one_tile.connections \in 0 .. 15 =>
            \A d \in Directions :
                HasConnection(one_tile'.connections, Turned(d))
                    <=> HasConnection(one_tile.connections, d)]_vars

\* a tile made with UP|RIGHT, rotated 4 times (and the 0xFF tile exists too)
C11_Witness ==
    /\ one_tile.made = 3 /\ one_tile.turns = 4 /\ one_tile.connections = 3

(***************************************************************************)
(* SpecDrops: calculate_bonus_drops called with the pin counts a board of  *)
(* the default height can have.                                            *)
(***************************************************************************)
DEFAULT_HEIGHT == 10

PinCounts == 0 .. DEFAULT_HEIGHT

InitDrops ==
    /\ last = [op |-> "new"]
    /\ one_tile = IdleTile /\ timers = IdleTimers
    /\ IdleUnits

\* calculate_bonus_drops(left_pins, right_pins)
Drops(left_pins, right_pins) ==
    /\ last' = [op |-> "calculate_bonus_drops", left_pins |-> left_pins,
                right_pins |-> right_pins,
                ret |-> CalculateBonusDrops(left_pins, right_pins)]
    /\ UNCHANGED <<boardVars, rngVars, one_tile, timers, gameVars>>

NextDrops == \E l \in PinCounts, r \in PinCounts : Drops(l, r)

SpecDrops == InitDrops /\ [][NextDrops]_vars

\* what one side adds to each of the three coin counts
SideCoins(pins) ==
    [ones  |-> IF pins > 3 THEN 1 ELSE 0,
     twos  |-> IF pins > 6 THEN 3 ELSE IF pins > 3 THEN pins - 3 ELSE 0,
     fives |-> IF pins > 6 THEN pins - 6 ELSE 0]

\* C17: calculate_bonus_drops(l, r) is (2, 0, 0) plus, for each side on its
\* own, (1, 3, pins-6) when the side has more than 6 pins, (1, pins-3, 0)
\* when it has more than 3, nothing otherwise; (0,0) gives (2,0,0), (5,0)
\* gives (3,2,0), (8,9) gives (4,6,5).
C17_Drops ==
    last.op = "calculate_bonus_drops" =>
        LET l == SideCoins(last.left_pins)
            r == SideCoins(last.right_pins)
            at(a, b) == last.left_pins = a /\ last.right_pins = b
        IN  /\ last.ret = <<2 + l.ones + r.ones, l.twos + r.twos, l.fives + r.fives>>
            /\ at(0, 0) => last.ret = <<2, 0, 0>>
            /\ at(5, 0) => last.ret = <<3, 2, 0>>
            /\ at(8, 9) => last.ret = <<4, 6, 5>>

C17_Witness ==
    /\ last.op = "calculate_bonus_drops"
    /\ last.left_pins = 8 /\ last.right_pins = 9 /\ last.ret = <<4, 6, 5>>

(***************************************************************************)
(* SpecGravity: a board as GameBoard::new deals it, some of its cells      *)
(* marked Ok with set_marking, and then one call of                        *)
(* remove_and_shift_connecting_tiles or of bomb_table.                     *)
(***************************************************************************)
\* set_marking(x, y, Marking::Ok) for the cells of S
MarkOk(b, S) ==
    [b EXCEPT !.markings =
        [k \in DOMAIN @ |->
            IF <<(k - 1) \div b.height, (k - 1) % b.height>> \in S THEN "Ok" ELSE @[k]]]

InitGravity ==
    /\ \E w \in 1 .. MaxFallWidth, h \in 1 .. MaxFallHeight, seed \in Seeds :
       \E S \in SUBSET ((0 .. w - 1) \X (0 .. h - 1)) :
          board = MarkOk(NewBoard(w, h, DEFAULT_MISSING_LINKS, seed), S)
    /\ pre = board
    /\ last = [op |-> "new"]
    /\ edits = 0
    /\ rng_a = IdleRng /\ rng_b = IdleRng /\ out_a = <<>> /\ out_b = <<>>
    /\ one_tile = IdleTile /\ timers = IdleTimers
    /\ IdleGame

\* board.remove_and_shift_connecting_tiles()
BoardRemoveAndShift ==
    /\ last.op = "new"
    /\ board' = RemoveAndShiftConnectingTiles(board)
    /\ pre' = board
    /\ last' = [op |-> "remove_and_shift_connecting_tiles"]
    /\ UNCHANGED <<edits, rngVars, one_tile, timers, gameVars>>

\* board.bomb_table(ati, atj, delta_x, delta_y)
BoardBomb(ati, atj, delta_x, delta_y) ==
    /\ last.op = "new"
    /\ board' = BombTable(board, ati, atj, delta_x, delta_y)
    /\ pre' = board
    /\ last' = [op |-> "bomb_table", ati |-> ati, atj |-> atj,
                delta_x |-> delta_x, delta_y |-> delta_y]
    /\ UNCHANGED <<edits, rngVars, one_tile, timers, gameVars>>

\* the reach of a bomb: 0 and 2 are what the power-ups use
Reach == {0, 1, 2}

NextGravity ==
    \/ BoardRemoveAndShift
    \/ \E ati \in 0 .. board.width, atj \in 0 .. board.height,
          delta_x \in Reach, delta_y \in Reach :
          BoardBomb(ati, atj, delta_x, delta_y)

SpecGravity == InitGravity /\ [][NextGravity]_vars

Rows(b) == 0 .. b.height - 1
Columns(b) == 0 .. b.width - 1

\* the rows of column x whose cell is marked Ok / is not
OkRows(b, x) == {y \in Rows(b) : GetMarking(b, x, y) = "Ok"}
KeptRows(b, x) == Rows(b) \ OkRows(b, x)

\* the number of cells marked Ok
OkCells(b) == Cardinality({c \in Columns(b) \X Rows(b) : GetMarking(b, c[1], c[2]) = "Ok"})

\* C12: after remove_and_shift_connecting_tiles on a fully populated board,
\* in every column the tiles of the cells not marked Ok are in the bottom
\* rows in the order they had (a tile with n Ok cells in its column and k
\* kept cells above it is in row n + k), every row above them holds a
\* generated tile with a mask in 1..15, and as many tiles were generated as
\* there were Ok cells.
C12_Shift ==
    last.op = "remove_and_shift_connecting_tiles" =>
        /\ \A x \in Columns(pre) :
             LET n == Cardinality(OkRows(pre, x))
             IN  /\ \A y \in KeptRows(pre, x) :
                       GridGet(board, x, n + Cardinality({z \in KeptRows(pre, x) : z < y}))
                           = GridGet(pre, x, y)
                 /\ \A y \in 0 .. n - 1 : GridGet(board, x, y) \in 1 .. 15
        /\ board.new_elements = pre.new_elements + OkCells(pre)

\* a column of three with exactly one Ok cell, below the top row
C12_Witness ==
    /\ last.op = "remove_and_shift_connecting_tiles"
    /\ pre.height = 3
    /\ \E x \in Columns(pre) : \E y \in 1 .. 2 :
          /\ OkRows(pre, x) = {y}
          /\ GridGet(pre, x, y - 1) # GridGet(pre, x, y)

\* C13: bomb_table(x, y, dx, dy) with (x, y) on the board clears the
\* rectangle of columns x-dx..x+dx and rows y-dy..y+dy clamped to the board:
\* in a column of the rectangle the cells below it are as they were, the
\* tiles that were above it are lower by the height of the rectangle, and the
\* rows vacated at the top hold generated tiles with a mask in 1..15; the
\* other columns are as they were; with (x, y) off the board the board is
\* unchanged.
C13_Bomb ==
    last.op = "bomb_table" =>
        IF last.ati >= pre.width \/ last.atj >= pre.height THEN board = pre
        ELSE LET first_x == Max(last.ati - last.delta_x, 0)
                 last_x  == Min(last.ati + last.delta_x, pre.width - 1)
                 first_y == Max(last.atj - last.delta_y, 0)
                 last_y  == Min(last.atj + last.delta_y, pre.height - 1)
                 rows    == last_y - first_y + 1
             IN  \A x \in Columns(pre) :
                    IF x < first_x \/ x > last_x
                    THEN \A y \in Rows(pre) : GridGet(board, x, y) = GridGet(pre, x, y)
                    ELSE /\ \A y \in last_y + 1 .. pre.height - 1 :
                                GridGet(board, x, y) = GridGet(pre, x, y)
                         /\ \A y \in 0 .. first_y - 1 :
                                GridGet(board, x, y + rows) = GridGet(pre, x, y)
                         /\ \A y \in 0 .. rows - 1 : GridGet(board, x, y) \in 1 .. 15

\* a bomb of one cell in the middle of a column of three, with a column
\* beside it, whose tile above differs from the one it lands on
C13_Witness ==
    /\ last.op = "bomb_table"
    /\ pre.width = 2 /\ pre.height = 3
    /\ last.atj = 1 /\ last.delta_x = 0 /\ last.delta_y = 0 /\ last.ati < 2
    /\ GridGet(pre, last.ati, 0) # GridGet(pre, last.ati, 1)

(***************************************************************************)
(* SpecBot: a board built the way the tests of bot.rs build one,           *)
(* GameBoard::new(w, h, 0, 1) and a grid.set for every cell, handed to     *)
(* BotPlayer::determine_next_move.                                         *)
(***************************************************************************)
\* the masks of the tiles of the two-row boards
BotMasks == {1, 3, 5, 7, 10, 15}

\* board.grid.set(x, y, Some(Tile::new(mask))) for every cell
SetTiles(b, tiles) == [b EXCEPT !.tiles = tiles]

InitBot ==
    /\ \/ \E w \in 1 .. 3 : \E tiles \in [1 .. w -> 1 .. 15] :
             board = SetTiles(NewBoard(w, 1, 0, 1), tiles)
       \/ \E tiles \in [1 .. 4 -> BotMasks] :
             board = SetTiles(NewBoard(2, 2, 0, 1), tiles)
    /\ pre = board
    /\ last = [op |-> "new"]
    /\ edits = 0
    /\ rng_a = IdleRng /\ rng_b = IdleRng /\ out_a = <<>> /\ out_b = <<>>
    /\ one_tile = IdleTile /\ timers = IdleTimers
    /\ IdleGame

\* BotPlayer::determine_next_move(&board)
BotMove ==
    /\ last.op = "new"
    /\ last' = [op |-> "determine_next_move", ret |-> DetermineNextMove(board)]
    /\ UNCHANGED <<boardVars, rngVars, one_tile, timers, gameVars>>

NextBot == BotMove

SpecBot == InitBot /\ [][NextBot]_vars

\* the trials of the bot: a cell it considers and a rotation count
Trials(b) ==
    {t \in Columns(b) \X Rows(b) \X (1 .. 3) :
        GridGet(b, t[1], t[2]) \notin {1, 2, 4, 8, 15, EmptyCell}}

\* the place of a trial in the order of the trials: cells column by column,
\* the rotation counts of a cell ascending
TrialOrder(b, t) == (t[1] * b.height + t[2]) * 3 + t[3]

\* the board of a trial and its score
TrialBoard(b, t) == RotateTimes(b, t[1], t[2], t[3])
TrialScore(b, t) == EvaluateConnections(TrialBoard(b, t)).score

AsMove(t) == Some([x |-> t[1], y |-> t[2], rotation_count |-> t[3]])

\* C14: determine_next_move returns the first trial, in the order of the
\* trials, whose score is the greatest of all trials, if that score is above
\* 0, and None if no trial scores above 0; on the 3x1 board
\* [LEFT|RIGHT, UP|DOWN, LEFT|RIGHT] it returns (1, 0, 1), on three equal
\* single-connection tiles None.
C14_BotMove ==
    last.op = "determine_next_move" =>
        LET score == [t \in Trials(board) |-> TrialScore(board, t)]
            scored == {t \in Trials(board) : score[t] > 0}
            best == {t \in scored : \A u \in scored : score[u] <= score[t]}
        IN  /\ scored = {} => last.ret = None
            /\ scored # {} =>
                 \E t \in best :
                    /\ \A u \in best : TrialOrder(board, t) <= TrialOrder(board, u)
                    /\ last.ret = AsMove(t)
            /\ board.tiles = <<5, 10, 5>> => last.ret = AsMove(<<1, 0, 1>>)
            /\ (\E m \in {1, 2, 4, 8} : board.tiles = <<m, m, m>>) => last.ret = None

\* the board of the test, and a move picked among trials of equal score
C14_Witness ==
    /\ last.op = "determine_next_move"
    /\ board.tiles = <<5, 10, 5>>
    /\ last.ret = AsMove(<<1, 0, 1>>)

\* a trial of the board zaps
Zaps(b) == CheckConnections(b).result # 0

\* C15: on every board on which a rotation the bot tries produces a zap,
\* the move determine_next_move returns produces a zap.  (Stated for the
\* boards of two columns or more that do not zap as they are: the bot is
\* asked for a move only while the board does not zap.)
C15_PrefersZap ==
    /\ last.op = "determine_next_move"
    /\ board.width > 1
    /\ ~Zaps(board)
    /\ \E t \in Trials(board) : Zaps(TrialBoard(board, t))
    => /\ last.ret # None
       /\ Zaps(RotateTimes(board, last.ret[1].x, last.ret[1].y,
                           last.ret[1].rotation_count))

(***************************************************************************)
(* Properties of the bot's timing and of the input calls, under Spec.      *)
(***************************************************************************)
\* the tick of this step made a bot move
BotActs == last'.op = "tick" /\ BotStarted(anims') /\ ~BotStarted(anims)

\* C16: with the bot enabled and no tap consumed, a bot move is made only
\* when at least BOT_DELAY_MIN of WaitingForInput time has passed since the
\* bot's last move (the frame of the move counted in); the bot moves in no
\* other phase and in no tick that consumed a tap, and its move rotates one
\* tile rotation_count times, starts one rotation animation and enters
\* RotatingTile.
C16_BotDelay ==
    [][BotActs =>
          /\ phase = "WaitingForInput" /\ bot_enabled /\ pending_tap = None
          /\ waited'.now - waited.at_move >= BOT_DELAY_MIN
          /\ phase' = "RotatingTile"
          /\ Len(anims'.rotate_anims) = 1
          /\ LET a == anims'.rotate_anims[1]
             IN  /\ a.rotation_count \in 1 .. 3
                 /\ board'.tiles = RotateTimes(board, a.x, a.y, a.rotation_count).tiles]_vars

\* the inventory of a side
Inventory(side) == IF side = "left" THEN power_left ELSE power_right

\* bit k of the packed power-up state
PowerBit(k) == Bit(GetPowerState(Game), Pow2(k)) = 1

\* C18: on each side at most one power-up type is armed and an armed type is
\* held, so of bits 6-8 and of bits 9-11 of the packed state at most one is
\* set, and the held bit of a set armed bit is set; toggle_arm on a held type
\* that is not armed arms it in place of any other and returns true,
\* toggle_arm on the armed type disarms it and returns false.
C18_Armed ==
    /\ [](\A side \in {"left", "right"} :
             Inventory(side).armed # Nil =>
                 /\ Inventory(side).armed \in PowerUpTypes
                 /\ Has(Inventory(side), Inventory(side).armed))
    /\ [](\A base \in {6, 9} :
             /\ Cardinality({k \in 0 .. 2 : PowerBit(base + k)}) <= 1
             /\ \A k \in 0 .. 2 : PowerBit(base + k) => PowerBit(base + k - 6))
    /\ [][last'.op = "toggle_arm" =>
            LET before == Inventory(last'.side)
                after  == IF last'.side = "left" THEN power_left' ELSE power_right'
            IN  /\ Has(before, last'.ptype) /\ before.armed # last'.ptype =>
                       /\ last'.ret = TRUE
                       /\ after = [before EXCEPT !.armed = last'.ptype]
                /\ before.armed = last'.ptype =>
                       /\ last'.ret = FALSE
                       /\ after = [before EXCEPT !.armed = Nil]]_vars

\* toggle_arm, the second input call of the game, armed the bomb of the
\* left side: bit 6 and its held bit 0 are set
C18_Witness ==
    /\ last.op = "toggle_arm" /\ last.side = "left" /\ last.ret = TRUE
    /\ calls.input = 2 /\ calls.tick = 0
    /\ power_left.armed = last.ptype /\ last.ptype = "Bomb"
    /\ PowerBit(6) /\ PowerBit(0)

\* C19: toggle_arm of a type the side does not hold returns false and
\* leaves the inventory as it was, held flags and armed type.
C19_NotHeld ==
    [][last'.op = "toggle_arm" /\ ~Has(Inventory(last'.side), last'.ptype) =>
          /\ last'.ret = FALSE
          /\ power_left' = power_left /\ power_right' = power_right]_vars

\* with the bomb of the left side armed, toggle_arm of a type the right side
\* does not hold returned false and left both inventories as they were
C19_Witness ==
    /\ last.op = "toggle_arm" /\ last.side = "right" /\ last.ret = FALSE
    /\ ~Has(power_right, last.ptype) /\ power_right.armed = Nil
    /\ power_left.armed = "Bomb"

\* C20: queue_tap with tile_x >= width or tile_y >= height changes nothing
\* of the game, a tap already pending included.
C20_TapOffBoard ==
    [][/\ last'.op = "queue_tap"
       /\ (last'.tile_x >= board.width \/ last'.tile_y >= board.height)
       => UNCHANGED <<board, phase, mode, left_score, right_score, bot_enabled,
                      bot_delay_timer, anims, effects, bonuses, power_left,
                      power_right, pending_bonus, pending_bomb_params,
                      sound_events, score_popups, pending_tap,
                      render_buffer>>]_vars

\* a tap beyond the right edge made while a tap is pending
C20_Witness ==
    /\ last.op = "queue_tap" /\ last.tile_x >= board.width
    /\ pending_tap # None

\* the rotation animations a tap started
TapStarted(a) == {i \in DOMAIN a.rotate_anims : ~a.rotate_anims[i].is_bot}

\* C21: at most one tap is pending, a cell of the board; queue_tap of a cell
\* of the board makes that cell the pending tap whatever was pending; a tick
\* that begins in WaitingForInput leaves no tap pending and acts on the
\* pending tap once (one armed power-up consumed or one rotation started), a
\* tick that begins in another phase leaves the pending tap as it is.
C21_OneTap ==
    /\ [](pending_tap # None =>
             /\ Len(pending_tap) = 2
             /\ pending_tap[1] < board.width /\ pending_tap[2] < board.height)
    /\ [][/\ last'.op = "queue_tap"
          /\ last'.tile_x < board.width /\ last'.tile_y < board.height
          => pending_tap' = <<last'.tile_x, last'.tile_y>>]_vars
    /\ [][last'.op = "tick" =>
            /\ phase # "WaitingForInput" => pending_tap' = pending_tap
            /\ phase = "WaitingForInput" =>
                  /\ pending_tap' = None
                  /\ Cardinality(TapStarted(anims'))
                       = IF pending_tap # None /\ Armed = Nil THEN 1 ELSE 0
                  /\ pending_tap = None =>
                        power_left' = power_left /\ power_right' = power_right]_vars

\* a tick took the tap of a Zen game and started its rotation, and the next
\* tap is pending while the tile rotates
C21_Witness ==
    /\ last.op = "queue_tap" /\ pending_tap = <<last.tile_x, last.tile_y>>
    /\ phase = "RotatingTile" /\ ~bot_enabled
    /\ calls.input = 2 /\ calls.tick = 1
    /\ Cardinality(TapStarted(anims)) = 1

(***************************************************************************)
(* The accessors of Grid and GameBoard, called once on a new board with    *)
(* any x in 0..width and any y in 0..height.                               *)
(***************************************************************************)
\* `self.tiles[self.idx(x, y)]` / `self.markings[self.marking_idx(x, y)]`:
\* the element the Vec indexing reaches, 0 when the index is not below the
\* length of the Vec and the call panics
Reached(b, x, y) == IF Idx(b, x, y) <= b.width * b.height THEN Idx(b, x, y) ELSE 0

\* grid.get(x, y), grid.get_mut(x, y)
GridGetCall(x, y) ==
    /\ last.op = "new"
    /\ last' = [op |-> "get", x |-> x, y |-> y, cell |-> Reached(board, x, y),
                ret |-> IF Reached(board, x, y) = 0 THEN EmptyCell
                        ELSE GridGet(board, x, y)]
    /\ pre' = board
    /\ UNCHANGED <<board, edits, rngVars, one_tile, timers, gameVars>>

\* grid.set(x, y, Some(Tile::new(mask)))
GridSetCall(x, y, mask) ==
    /\ last.op = "new"
    /\ board' = IF Reached(board, x, y) = 0 THEN board
                ELSE GridSet(board, x, y, TileNew(mask))
    /\ last' = [op |-> "set", x |-> x, y |-> y, cell |-> Reached(board, x, y)]
    /\ pre' = board
    /\ UNCHANGED <<edits, rngVars, one_tile, timers, gameVars>>

\* board.set_tile(x, y, connection)
SetTileCall(x, y, connection) ==
    /\ last.op = "new"
    /\ board' = IF Reached(board, x, y) = 0 THEN board
                ELSE SetTile(board, x, y, connection)
    /\ last' = [op |-> "set_tile", x |-> x, y |-> y, cell |-> Reached(board, x, y)]
    /\ pre' = board
    /\ UNCHANGED <<edits, rngVars, one_tile, timers, gameVars>>

\* board.get_marking(x, y)
GetMarkingCall(x, y) ==
    /\ last.op = "new"
    /\ last' = [op |-> "get_marking", x |-> x, y |-> y,
                cell |-> Reached(board, x, y),
                ret |-> IF Reached(board, x, y) = 0 THEN "None"
                        ELSE GetMarking(board, x, y)]
    /\ pre' = board
    /\ UNCHANGED <<board, edits, rngVars, one_tile, timers, gameVars>>

\* board.set_marking(x, y, m)
SetMarkingCall(x, y, m) ==
    /\ last.op = "new"
    /\ board' = IF Reached(board, x, y) = 0 THEN board
                ELSE SetMarking(board, x, y, m)
    /\ last' = [op |-> "set_marking", x |-> x, y |-> y,
                cell |-> Reached(board, x, y)]
    /\ pre' = board
    /\ UNCHANGED <<edits, rngVars, one_tile, timers, gameVars>>

NextAccess ==
    \/ \E x \in 0 .. board.width, y \in 0 .. board.height : GridGetCall(x, y)
    \/ \E x \in 0 .. board.width, y \in 0 .. board.height, mask \in {5, 255} :
          GridSetCall(x, y, mask)
    \/ \E x \in 0 .. board.width, y \in 0 .. board.height, connection \in {5, 255} :
          SetTileCall(x, y, connection)
    \/ \E x \in 0 .. board.width, y \in 0 .. board.height : GetMarkingCall(x, y)
    \/ \E x \in 0 .. board.width, y \in 0 .. board.height,
          m \in {"Ok", "Animating"} : SetMarkingCall(x, y, m)

SpecAccess == InitBoard /\ [][NextAccess]_vars

\* C22: an accessor called with x >= width or y >= height reaches no cell of
\* the board: it reads no tile or marking and leaves the board as it was.
C22_BoundsChecked ==
    /\ last.op \in {"get", "set", "set_tile", "get_marking", "set_marking"}
    /\ (last.x >= pre.width \/ last.y >= pre.height)
    => last.cell = 0 /\ board = pre

(***************************************************************************)
(* The render buffer of the game.                                          *)
(***************************************************************************)
\* the instances k+1 .. k+n of the render buffer
Slice(k, n) == SubSeq(render_buffer, k + 1, k + n)

\* n instances of the atlas, the pins of column x row by row
IsPinColumn(seq, x) ==
    /\ Len(seq) = board.height
    /\ \A j \in 1 .. Len(seq) :
          seq[j].atlas = "pins" /\ seq[j].x = x /\ seq[j].y = j - 1

\* one instance per cell, column by column and in each column row by row
IsTileBlock(seq) ==
    /\ Len(seq) = board.width * board.height
    /\ \A j \in 1 .. Len(seq) :
          /\ seq[j].atlas = "normal"
          /\ seq[j].x = (j - 1) \div board.height /\ seq[j].y = (j - 1) % board.height
          /\ seq[j].sprite_id = GridGet(board, seq[j].x, seq[j].y)

\* the rotation animations under way in RotatingTile
Overlays == IF phase = "RotatingTile" THEN Len(anims.rotate_anims) ELSE 0

\* C23 as stated: after a tick, with no bonus on the board, the render buffer
\* holds width*height + 2*height instances.
C23_PinsAndTiles ==
    last.op = "tick" /\ bonuses = NoBonuses
    => Len(render_buffer) = board.width * board.height + 2 * board.height

\* C23, amended: after a tick the render buffer holds the left pin column,
\* the tiles column-major, the right pin column, one instance per bonus and,
\* in RotatingTile, one arrow overlay per rotation animation; with no bonus
\* and outside RotatingTile that is width*height + 2*height instances.
C23_RenderBuffer ==
    last.op = "tick" =>
        LET tiles == board.width * board.height
            pins  == board.height
            extra == Len(bonuses.falling) + Len(bonuses.landed)
        IN  /\ Len(render_buffer) = tiles + 2 * pins + extra + Overlays
            /\ IsPinColumn(Slice(0, pins), -1)
            /\ IsTileBlock(Slice(pins, tiles))
            /\ IsPinColumn(Slice(pins + tiles, pins), board.width)
            /\ \A j \in 1 .. extra :
                  render_buffer[2 * pins + tiles + j].atlas = "bonus"
            /\ \A j \in 1 .. Overlays :
                  render_buffer[2 * pins + tiles + extra + j].atlas = "arrows"
            /\ (bonuses = NoBonuses /\ phase # "RotatingTile"
                 => Len(render_buffer) = tiles + 2 * pins)

\* a tick has ended in RotatingTile with no bonus on the board: the buffer
\* holds the pins, the tiles and the arrow overlay of the rotation
C23_Witness ==
    /\ last.op = "tick" /\ phase = "RotatingTile" /\ bonuses = NoBonuses
    /\ Len(render_buffer) = board.width * board.height + 2 * board.height + 1
    /\ render_buffer[Len(render_buffer)].atlas = "arrows"

\* C24: check_connections leaves every cell marked Animating marked
\* Animating, whatever the tiles of the board are.
C24_KeepsAnimating ==
    last.op = "check_connections" =>
        \A k \in DOMAIN pre.markings :
            pre.markings[k] = "Animating" => board.markings[k] = "Animating"

(***************************************************************************)
(* The row multipliers of the game.                                        *)
(***************************************************************************)
\* the multiplier of the pin of row y on a side (0 left, 1 right) of board b
Multiplier(b, y, side) ==
    IF side = 0 THEN b.multiplier_left[y + 1] ELSE b.multiplier_right[y + 1]

\* the popups shown over the pin of row y on a side
PinPopups(popups, y, side) ==
    {i \in DOMAIN popups :
        IsPinPopup(popups[i]) /\ popups[i].y = y /\ popups[i].side = side}

\* C25: a row multiplier of a new game is 1, or 2 when the pin of its row
\* scored in the check that new_with_mode makes; no step of the game lowers
\* a multiplier, and a multiplier grows, by 1, exactly in the ticks in which
\* the pin of its row scores (a popup is shown over that pin).
C25_Multipliers ==
    /\ [](\A y \in 0 .. GameHeight - 1, side \in {0, 1} :
             /\ Multiplier(board, y, side) >= 1
             /\ last.op = "new" =>
                    Multiplier(board, y, side)
                        = 1 + Cardinality(PinPopups(score_popups, y, side)))
    /\ [][\A y \in 0 .. GameHeight - 1, side \in {0, 1} :
            Multiplier(board', y, side)
                = Multiplier(board, y, side)
                  + (IF last'.op = "tick"
                     THEN Cardinality(PinPopups(score_popups', y, side)) ELSE 0)]_vars

\* a board has been cleared and refilled after a zap and a later tick has
\* made a pin score again: its multiplier is above 2
C25_Witness ==
    /\ last.op = "tick"
    /\ \E y \in 0 .. GameHeight - 1, side \in {0, 1} :
          /\ Multiplier(board, y, side) > 2
          /\ PinPopups(score_popups, y, side) # {}

(***************************************************************************)
(* Two instances of one timer (the freeze timer, a rotation animation or a *)
(* fall animation), made alike and ticked with frames of different length. *)
(***************************************************************************)
\* frame times: 50 and 10 frames per second
TimerDts == {20, 100}

\* the timer of a kind as it is started
TimerNew(kind) ==
    CASE kind = "freeze" -> [NewAnims EXCEPT !.freeze_timer = FREEZE_BOMB_DURATION]
      [] kind = "rotate" -> RotateAnimNew(0, 0, 1, FALSE)
      [] kind = "fall"   -> FallAnimNew(0, 1, WorldY(0), WorldY(1))

\* one tick of dt of a timer: tick_freeze(dt), RotateAnim::tick(dt),
\* FallAnim::tick()
TimerTicked(kind, inst, dt) ==
    CASE kind = "freeze" ->
            [t |-> TickFreeze(inst.t, dt).anims, fed |-> inst.fed + dt,
             done |-> TickFreeze(inst.t, dt).ret]
      [] kind = "rotate" ->
            [t |-> RotateAnimTick(inst.t, dt), fed |-> inst.fed + dt,
             done |-> ~RotateAnimAlive(RotateAnimTick(inst.t, dt))]
      [] kind = "fall" ->
            [t |-> FallAnimTick(inst.t), fed |-> inst.fed + dt,
             done |-> ~FallAnimAlive(FallAnimTick(inst.t))]

InitTimers ==
    /\ \E kind \in {"freeze", "rotate", "fall"} :
          timers = [kind |-> kind,
                    a |-> [t |-> TimerNew(kind), fed |-> 0, done |-> FALSE],
                    b |-> [t |-> TimerNew(kind), fed |-> 0, done |-> FALSE]]
    /\ one_tile = IdleTile
    /\ last = [op |-> "new"]
    /\ IdleUnits

\* a frame of dt of instance a, which is not complete yet
TickTimerA(dt) ==
    /\ ~timers.a.done /\ timers.a.fed + dt <= MaxFed
    /\ timers' = [timers EXCEPT !.a = TimerTicked(timers.kind, @, dt)]
    /\ last' = [op |-> "tick_a"]
    /\ UNCHANGED <<boardVars, rngVars, one_tile, gameVars>>

\* a frame of dt of instance b
TickTimerB(dt) ==
    /\ ~timers.b.done /\ timers.b.fed + dt <= MaxFed
    /\ timers' = [timers EXCEPT !.b = TimerTicked(timers.kind, @, dt)]
    /\ last' = [op |-> "tick_b"]
    /\ UNCHANGED <<boardVars, rngVars, one_tile, gameVars>>

NextTimers ==
    \/ \E dt \in TimerDts : TickTimerA(dt)
    \/ \E dt \in TimerDts : TickTimerB(dt)

SpecTimers == InitTimers /\ [][NextTimers]_vars

\* C26: of two timers made alike, the one is complete when the other is
\* once the same total dt has been handed to their ticks, however the total
\* is split into ticks.
C26_AccumulatedDt ==
    timers.kind # Nil /\ timers.a.fed = timers.b.fed
    => (timers.a.done <=> timers.b.done)

(***************************************************************************)
(* The generators of the game.                                             *)
(***************************************************************************)
\* C27 as stated: tile generation and the effects draw from one generator.
C27_OneStream == board.rng = effects.rng

\* the step is the tick that ends the freeze of a zap: do_zap
ZapDone == last'.op = "tick" /\ phase = "FreezeDuringZap" /\ phase' = "FallingTiles"

\* C27, amended: the game has two generators.  That of the board is started
\* from the seed and advances only when tiles are generated; that of the
\* effects is started from seed + 7919 and gives the arcs their
\* displacements, the bot its delay and the bonuses their cells, none of
\* which advances the generator of the board.
C27_TwoStreams ==
    /\ [](last.op = "new" /\ phase = "WaitingForInput" =>
             \E st \in Starts :
                /\ board.rng = NewBoard(GameWidth, GameHeight,
                                        DEFAULT_MISSING_LINKS, st.seed).rng
                /\ effects.rng = ArcDraws(RngNew(st.seed + 7919), effects.arcs, 1))
    /\ [][board'.rng # board.rng => board'.new_elements > board.new_elements]_vars
    /\ [][BotActs /\ pending_tap = <<>> =>
            LET d == NextInt(effects.rng, 1000)
            IN  /\ board'.rng = board.rng
                /\ bot_delay_timer'
                      = BOT_DELAY_MIN + (d.val * (BOT_DELAY_MAX - BOT_DELAY_MIN)) \div 1000
                /\ effects'.rng = ArcDraws(d.rng, effects'.arcs, 1)]_vars
    /\ [][ZapDone =>
            LET sp == SpawnBonuses(pending_bonus[1], pending_bonus[2], pending_bonus[3],
                                   board', effects.rng)
            IN  /\ bonuses'.falling = sp.bonuses.falling
                /\ effects'.rng = sp.rng]_vars

\* a zap has been played: new tiles have been drawn from the generator of
\* the board and the cells of the bonuses from that of the effects
C27_Witness ==
    /\ last.op = "tick" /\ phase = "FallingTiles"
    /\ bonuses.falling # <<>>
    /\ board.new_elements > GameWidth * GameHeight
    /\ board.rng # effects.rng


(***************************************************************************)
(* The collection of the landed bonuses.                                   *)
(***************************************************************************)
\* a bonus of a kind lying landed on the cell (x, y): FallingBonus::new at
\* the end of its fall
LandedAt(kind, x, y) ==
    With((GRID_OFFSET_Y + y * TILE_SIZE) * Micro + (TILE_SIZE * Micro) \div 2,
         LAMBDA target_y : [tile_x |-> x, tile_y |-> y, current_y |-> target_y,
                            target_y |-> target_y, speed |-> 0, kind |-> kind])

MaxCollectTicks == 2   \* tick calls of a game of SpecCollect, falls aside

\* seeds 9 and 63 deal boards that zap as dealt; the zap of seed 63 leaves a
\* tile of a zapped column in its row
CollectSeeds == {7, 9, 63}

\* The host writes bonuses.landed, a public field, on a fresh GameState: a
\* coin and a power-up lying on two cells of the board.
InitCollect ==
    /\ \E seed \in CollectSeeds, m \in {"Zen", "VsBot"}, power \in {"Bomb", "Arrow"} :
       \E c1 \in GameCells : \E c2 \in GameCells \ {c1} :
       \E g \in {NewGame(seed, m, GameWidth, GameHeight)} :
          Becomes0([g EXCEPT !.bonuses.landed =
                                <<LandedAt("Coin2", c1[1], c1[2]),
                                  LandedAt(power, c2[1], c2[2])>>])
    /\ calls = [tick |-> 0, short |-> 0, input |-> 0]
    /\ held = 0
    /\ waited = [now |-> 0, at_move |-> 0]
    /\ last = [op |-> "new"]
    /\ pre = IdleBoard /\ edits = 0
    /\ rng_a = IdleRng /\ rng_b = IdleRng /\ out_a = <<>> /\ out_b = <<>>
    /\ one_tile = IdleTile /\ timers = IdleTimers

\* the host taps once and plays frames of one second
NextCollect ==
    \/ (phase = "FallingTiles" \/ calls.tick < MaxCollectTicks) /\ Tick(1000)
    \/ \E c \in TapCells : calls.input < 1 /\ QueueTap(c[1], c[2])

SpecCollect == InitCollect /\ [][NextCollect]_vars

\* the step is a tick that ends a rotation or a fall, or applies a Cross:
\* the ticks in which check_and_transition runs with bonuses on the board
Rechecks ==
    /\ last'.op = "tick"
    /\ \/ phase = "RotatingTile" /\ phase' # "RotatingTile"
       \/ phase = "FallingTiles" /\ phase' # "FallingTiles"
       \/ /\ phase = "WaitingForInput" /\ pending_tap # <<>>
          /\ "Cross" \in {power_left.armed,
                          IF power_left.armed = Nil THEN power_right.armed ELSE Nil}

\* the bonuses that lie landed when that re-check is made: a fall ends with
\* the tick in which its last bonuses land
LandedAtCheck ==
    IF phase = "FallingTiles" THEN TickFalling(bonuses).landed ELSE bonuses.landed

\* the points of the coins of a sequence of bonuses, from index i on
RECURSIVE CoinPoints(_, _)
CoinPoints(seq, i) ==
    IF i > Len(seq) THEN 0 ELSE BonusPoints(seq[i].kind) + CoinPoints(seq, i + 1)

\* what the popups over the pins of a side show in all, from index i on
RECURSIVE PinPaid(_, _, _)
PinPaid(popups, side, i) ==
    IF i > Len(popups) THEN 0
    ELSE (IF IsPinPopup(popups[i]) /\ popups[i].side = side
          THEN popups[i].value ELSE 0) + PinPaid(popups, side, i + 1)

\* C28: at a re-check every landed bonus on a Left or Ok cell goes to the
\* left side and every one on a Right cell to the right side; the others
\* stay landed.  The coins of a side add to its score in VsBot, those of
\* both sides to both scores in Zen (on top of what a zap pays the pins),
\* and a power-up collected is held by its side after the tick.
C28_Collects ==
    [][Rechecks =>
        LET at(bn)  == GetMarking(board', bn.tile_x, bn.tile_y)
            toLeft(bn)  == at(bn) \in {"Left", "Ok"}
            toRight(bn) == at(bn) = "Right"
            stays(bn)   == ~toLeft(bn) /\ ~toRight(bn)
            lpts == CoinPoints(SelectSeq(LandedAtCheck, toLeft), 1)
            rpts == CoinPoints(SelectSeq(LandedAtCheck, toRight), 1)
            lpin == PinPaid(score_popups', 0, 1)
            rpin == PinPaid(score_popups', 1, 1)
        IN  /\ bonuses'.landed = SelectSeq(LandedAtCheck, stays)
            /\ left_score' = left_score
                  + (IF mode = "Zen" THEN lpts + rpts + lpin + rpin ELSE lpts + lpin)
            /\ right_score' = right_score
                  + (IF mode = "Zen" THEN lpts + rpts + lpin + rpin ELSE rpts + rpin)
            /\ \A i \in DOMAIN LandedAtCheck :
                  LET bn == LandedAtCheck[i]
                  IN  bn.kind \in PowerUpTypes =>
                         /\ toLeft(bn) => Has(power_left', bn.kind)
                         /\ toRight(bn) => Has(power_right', bn.kind)]_vars

\* a rotation has made a zap and the re-check has collected, for the left
\* side, a coin lying on a cell that it marked Ok
C28_Witness ==
    /\ last.op = "tick" /\ phase = "FreezeDuringZap"
    /\ \E i \in DOMAIN score_popups :
          /\ IsCoinPopup(score_popups[i])
          /\ score_popups[i].side = 0
          /\ GetMarking(board, score_popups[i].x, score_popups[i].y) = "Ok"
          /\ left_score >= score_popups[i].value

(***************************************************************************)
(* A tap with a power-up armed.                                            *)
(***************************************************************************)
\* the step is a tick that takes a tap in WaitingForInput with a power-up
\* armed on a side
AppliesPower ==
    /\ last'.op = "tick" /\ phase = "WaitingForInput" /\ pending_tap # None
    /\ (power_left.armed # Nil \/ power_right.armed # Nil)

\* C29: such a tick rotates nothing for the player and consumes one armed
\* power-up, the left side's first: that side is disarmed and no longer
\* holds it, the other side keeps its inventory (the re-check a Cross
\* makes may collect landed power-ups, which the sides then hold).  Bomb and Arrow leave the
\* board as it is, record the area (tx, ty, 2, 2), respectively
\* (tx, ty, 0, height), clear the bonuses, set the freeze of 1.0 s and enter
\* FreezeDuringBomb; Cross sets the tile to 0x0F and re-checks the
\* connections in the same tick.
C29_AppliesPower ==
    [][AppliesPower =>
        LET tx    == pending_tap[1]
            ty    == pending_tap[2]
            left  == power_left.armed # Nil
            ptype == IF left THEN power_left.armed ELSE power_right.armed
            used  == IF left THEN power_left ELSE power_right
            used1 == IF left THEN power_left' ELSE power_right'
            kept  == IF left THEN power_right ELSE power_left
            kept1 == IF left THEN power_right' ELSE power_left'
            took(kind) == \E i \in DOMAIN bonuses.landed :
                             /\ bonuses.landed[i].kind = kind
                             /\ \A j \in DOMAIN bonuses'.landed :
                                   bonuses'.landed[j] # bonuses.landed[i]
            crossed == SetTile(board, tx, ty, 15)
        IN  /\ pending_tap' = None
            /\ \A i \in DOMAIN anims'.rotate_anims : anims'.rotate_anims[i].is_bot
            /\ used1.armed = Nil
            /\ \A k \in PowerUpTypes :
                  /\ Has(used, k) /\ k # ptype => Has(used1, k)
                  /\ Has(used1, k) /\ (k = ptype \/ ~Has(used, k)) =>
                         ptype = "Cross" /\ took(k)
                  /\ Has(kept, k) => Has(kept1, k)
                  /\ Has(kept1, k) /\ ~Has(kept, k) => ptype = "Cross" /\ took(k)
            /\ kept1.armed = kept.armed
            /\ ptype \in {"Bomb", "Arrow"} =>
                  /\ board' = board
                  /\ pending_bomb_params'
                        = IF ptype = "Bomb" THEN <<tx, ty, 2, 2>>
                          ELSE <<tx, ty, 0, board.height>>
                  /\ bonuses' = NoBonuses
                  /\ anims'.freeze_timer = FREEZE_BOMB_DURATION
                  /\ phase' = "FreezeDuringBomb"
            /\ ptype = "Cross" =>
                  /\ GridGet(board', tx, ty) = 15
                  /\ GridGet(crossed, tx, ty) = 15
                  /\ board'.markings = CheckConnections(crossed).board.markings
                  /\ pending_bomb_params' = pending_bomb_params
                  /\ IF CheckConnections(crossed).result # 0
                     THEN phase' \in {"FreezeDuringZap", "GameOver"}
                     ELSE phase' \in {"WaitingForInput", "RotatingTile"}]_vars

\* the left side has used its armed Arrow on a tap: the column of the tap
\* waits to be cleared and the left side holds no Arrow any more
C29_Witness ==
    /\ last.op = "tick" /\ phase = "FreezeDuringBomb" /\ held = 0
    /\ pending_bomb_params # None
    /\ pending_bomb_params[3] = 0 /\ pending_bomb_params[4] = GameHeight
    /\ ~Has(power_left, "Arrow") /\ power_left.armed = Nil
    /\ bonuses = NoBonuses

(***************************************************************************)
(* The fall of the tiles and of the bonuses.                               *)
(***************************************************************************)
\* the frame brings a falling bonus to its target Y
Reaches(bonus) == bonus.current_y + FallSpeed(bonus.speed) >= bonus.target_y

\* C30: a tick in FallingTiles re-checks the connections when, and only
\* when, it leaves no fall animation and no falling bonus.  Until then the
\* phase stays FallingTiles and the board (grid, markings) and the scores
\* are as they were; a bonus goes from falling to landed in the frame that
\* brings it to its target Y, and in no other.
C30_Falling ==
    [][last'.op = "tick" /\ phase = "FallingTiles" =>
        LET landing == {i \in DOMAIN bonuses.falling : Reaches(bonuses.falling[i])}
            done    == /\ TickFalls(anims).fall_anims = <<>>
                       /\ landing = DOMAIN bonuses.falling
        IN  /\ done <=> phase' # "FallingTiles"
            /\ done <=> (anims'.fall_anims = <<>> /\ bonuses'.falling = <<>>)
            /\ \A i \in DOMAIN bonuses'.falling :
                  bonuses'.falling[i].current_y < bonuses'.falling[i].target_y
            /\ \A i \in DOMAIN bonuses'.landed :
                  bonuses'.landed[i].current_y = bonuses'.landed[i].target_y
            /\ ~done =>
                  /\ board' = board
                  /\ left_score' = left_score /\ right_score' = right_score
                  /\ Len(bonuses'.falling)
                        = Len(bonuses.falling) - Cardinality(landing)
                  /\ Len(bonuses'.landed)
                        = Len(bonuses.landed) + Cardinality(landing)
            /\ done =>
                  /\ board'.markings = CheckConnections(board).board.markings
                  /\ board'.tiles = board.tiles
                  /\ IF CheckConnections(board).result # 0
                     THEN phase' \in {"FreezeDuringZap", "GameOver"}
                     ELSE phase' = "WaitingForInput"]_vars

\* a bonus has landed in a frame of a fall that goes on: the phase is still
\* FallingTiles, with tiles or other bonuses yet to land
C30_Witness ==
    /\ last.op = "tick" /\ phase = "FallingTiles"
    /\ bonuses.landed # <<>>
    /\ (anims.fall_anims # <<>> \/ bonuses.falling # <<>>)

(***************************************************************************)
(* The fall animations of a zap.                                           *)
(***************************************************************************)
\* the rows of column x of a board that are marked Ok
OkRowsOf(b, x) == {y \in 0 .. b.height - 1 : GetMarking(b, x, y) = "Ok"}

\* the fall animations do_zap owes to column x of the board b, checked and
\* not yet shifted: one for each surviving tile that Ok cells below it move
\* down, from its old row to its new one, and one for each new top cell,
\* from as many tiles above its row as the column has new cells
OwedFalls(b, x) ==
    LET ok     == OkRowsOf(b, x)
        below(y) == Cardinality({o \in ok : o > y})
    IN  {[x |-> x, y |-> y + below(y), current_y |-> WorldY(y),
          target_y |-> WorldY(y + below(y)), speed |-> 0] :
             y \in {r \in (0 .. b.height - 1) \ ok : below(r) > 0}}
        \cup {[x |-> x, y |-> i,
               current_y |-> WorldY(i) - Cardinality(ok) * TILE_SIZE * Micro,
               target_y |-> WorldY(i), speed |-> 0] : i \in 0 .. Cardinality(ok) - 1}

\* C31: the tick that ends the freeze of a zap leaves exactly the fall
\* animations owed to the columns of the board, each once; their targets are
\* distinct cells of the board and each starts above its target, the new
\* tiles above the grid.  After it no cell is marked, there is no arc, the
\* queued bonuses (and at most one power-up of each type) are falling and
\* the phase is FallingTiles.
C31_ZapFalls ==
    [][ZapDone =>
        LET checked == CheckConnections(board).board
            owed    == UNION {OwedFalls(checked, x) : x \in 0 .. board.width - 1}
            falls   == anims'.fall_anims
            queued  == pending_bonus[1] + pending_bonus[2] + pending_bonus[3]
        IN  /\ anims.fall_anims = <<>>
            /\ {falls[i] : i \in DOMAIN falls} = owed
            /\ Len(falls) = Cardinality(owed)
            /\ \A i \in DOMAIN falls :
                  /\ falls[i].x < board.width /\ falls[i].y < board.height
                  /\ falls[i].current_y < falls[i].target_y
                  /\ OkRowsOf(checked, falls[i].x) # {}
                  /\ \A j \in DOMAIN falls :
                        i # j => <<falls[i].x, falls[i].y>> # <<falls[j].x, falls[j].y>>
            /\ \A x \in 0 .. board.width - 1, y \in 0 .. board.height - 1 :
                  GetMarking(board', x, y) = "None"
            /\ effects'.arcs = <<>>
            /\ pending_bonus' = <<0, 0, 0>>
            /\ Len(bonuses'.falling) \in queued .. queued + 3
            /\ bonuses'.landed = <<>>
            /\ phase' = "FallingTiles"]_vars

\* a zap has just been played in which a surviving tile moved down a row and
\* a new tile comes in from above the grid
C31_Witness ==
    /\ last.op = "tick" /\ phase = "FallingTiles"
    /\ \A i \in DOMAIN anims.fall_anims : anims.fall_anims[i].speed = 0
    /\ \E i \in DOMAIN anims.fall_anims :
          anims.fall_anims[i].current_y >= GRID_OFFSET_Y * Micro
    /\ \E i \in DOMAIN anims.fall_anims :
          anims.fall_anims[i].current_y < GRID_OFFSET_Y * Micro
    /\ bonuses.falling # <<>>

(***************************************************************************)
(* The board during a freeze.                                              *)
(***************************************************************************)
\* C32: no step taken in a freeze that stays in it changes the board; the
\* tick that ends the freeze of a zap removes the connected tiles, the tick
\* that ends the freeze of a bomb or an arrow clears the deferred area, and
\* an area is deferred exactly while the phase is FreezeDuringBomb.
C32_FreezeHolds ==
    /\ [](pending_bomb_params # None <=> phase = "FreezeDuringBomb")
    /\ [][(phase \in FreezePhases) /\ phase' = phase => board' = board]_vars
    /\ [][(phase \in FreezePhases) /\ phase' # phase =>
            /\ last'.op = "tick" /\ phase' = "FallingTiles"
            /\ phase = "FreezeDuringZap" =>
                  board'.tiles = RemoveAndShiftConnectingTiles(
                                     CheckConnections(board).board).tiles
            /\ phase = "FreezeDuringBomb" =>
                  LET p == pending_bomb_params
                  IN  board'.tiles = BombTable(board, p[1], p[2], p[3], p[4]).tiles]_vars
    /\ [][(phase \notin FreezePhases) /\ phase' = "FallingTiles" => phase = "FallingTiles"]_vars

\* the freeze of a bomb has ended after a tick that held the board: the area
\* has been cleared and is deferred no more
C32_Witness ==
    /\ last.op = "tick" /\ phase = "FallingTiles"
    /\ pending_bomb_params = None
    /\ ~Has(power_left, "Bomb")
    /\ \A i \in DOMAIN anims.fall_anims : anims.fall_anims[i].speed = 0
    /\ anims.fall_anims # <<>>
    /\ held > FREEZE_BOMB_DURATION

(***************************************************************************)
(* SpecElements: boards made with a percentage of dead ends, and           *)
(* get_new_element called on them.                                         *)
(***************************************************************************)
MaxElements == 6    \* get_new_element calls on a board once it is made

\* the percentages of dead ends a board is made with: none, the default,
\* that of the tests, all
MissingLinks == {0, DEFAULT_MISSING_LINKS, 30, 100}

\* the draws of a board: its tiles and those asked since
DrawsOf(b) == b.width * b.height + MaxElements

InitElements ==
    /\ \E w \in 1 .. MaxWidth, h \in 1 .. MaxHeight, seed \in Seeds,
          missing_links \in MissingLinks :
          board = NewBoard(w, h, missing_links, seed)
    /\ pre = board
    /\ last = [op |-> "new"]
    /\ edits = 0
    /\ rng_a = IdleRng /\ rng_b = IdleRng /\ out_a = <<>> /\ out_b = <<>>
    /\ one_tile = IdleTile /\ timers = IdleTimers
    /\ IdleGame

\* board.get_new_element()
GetNewElementCall ==
    /\ board.new_elements < DrawsOf(board)
    /\ \E r \in {GetNewElement(board)} :
          /\ board' = r.board
          /\ last' = [op |-> "get_new_element", ret |-> r.k]
    /\ pre' = board
    /\ UNCHANGED <<edits, rngVars, one_tile, timers, gameVars>>

NextElements == GetNewElementCall

SpecElements == InitElements /\ [][NextElements]_vars

\* the dead ends drawn before a call are too many for the draws its own
\* included
TooManyDeadEnds(b) ==
    (100 * b.missing_link_elements) \div (b.new_elements + 1) > b.missing_links

\* C33: get_new_element returns a mask of 1..15 and counts the draw, and as
\* a dead end when it is one; it returns no dead end (1, 2, 4, 8) when the
\* dead ends drawn so far, in hundredths of the draws made with this one,
\* exceed the percentage of the board.  No board has counted more dead ends
\* than draws.
C33_NewElement ==
    /\ [](board.missing_link_elements <= board.new_elements)
    /\ [][last'.op = "get_new_element" =>
            /\ last'.ret \in 1 .. 15
            /\ TooManyDeadEnds(board) => ~IsSingleConnection(last'.ret)
            /\ board'.new_elements = board.new_elements + 1
            /\ board'.missing_link_elements
                  = board.missing_link_elements
                    + (IF IsSingleConnection(last'.ret) THEN 1 ELSE 0)]_vars

\* a call has drawn a dead end first, on a board with too many of them, and
\* has returned another mask
C33_Witness ==
    /\ last.op = "get_new_element"
    /\ TooManyDeadEnds(pre)
    /\ IsSingleConnection(NextInt(pre.rng, 15).val + 1)
    /\ ~IsSingleConnection(last.ret)
    /\ pre.missing_links > 0

(***************************************************************************)
(* SpecLive: the games of Spec with a host that goes on calling tick.  A   *)
(* frame is played whenever the game is in a timed phase; the frames that  *)
(* begin in another phase and the input calls are counted as in Spec.      *)
(***************************************************************************)
TimedPhases == {"RotatingTile", "FreezeDuringZap", "FreezeDuringBomb", "FallingTiles"}

MaxLiveTicks == 2    \* tick calls per game that begin in no timed phase

\* the Zen game that starts without a score: its board zaps as dealt
InitLive == Init /\ mode = "Zen" /\ left_score = 0

\* the host may call tick(dt): the frames of a timed phase are not counted
LiveGuard(dt) ==
    \/ phase = "FallingTiles"
    \/ /\ phase \in TimedPhases \/ calls.tick < MaxLiveTicks
       /\ Short(dt) => calls.short < MaxShortTicks

\* the calls made once tick(dt) has been called
LiveCalls(dt) ==
    IF phase = "FallingTiles" THEN calls
    ELSE [calls EXCEPT !.tick = IF phase \in TimedPhases THEN @ ELSE @ + 1,
                       !.short = IF Short(dt) THEN @ + 1 ELSE @]

\* state.tick(dt) of a host that does not stop in a timed phase
LiveTick(dt) ==
    /\ LiveGuard(dt)
    /\ \E g \in {TickGame(Game, dt)} : Becomes(g)
    /\ calls' = LiveCalls(dt)
    /\ last' = [op |-> "tick"]
    /\ UNCHANGED <<held, waited, harnessVars>>

NextLive ==
    \/ \E dt \in Dts : LiveTick(dt)
    \/ \E c \in TapCells : QueueTap(c[1], c[2])
    \/ \E side \in {"left", "right"}, ptype \in PowerUpTypes : ArmPower(side, ptype)

\* a call of tick is possible that changes the state: the enabling
\* condition of <<\E dt \in Dts : LiveTick(dt)>>_vars, as a state function
LiveDue ==
    \E dt \in Dts :
        /\ LiveGuard(dt)
        /\ \/ TickGame(Game, dt) # Game
           \/ LiveCalls(dt) # calls
           \/ last.op # "tick"

\* the host calls tick every frame: weak fairness of the tick, a frame is
\* played whenever one can be from some state on
SpecLive ==
    /\ InitLive /\ [][NextLive]_vars
    /\ ([]<>(~LiveDue) \/ []<><<last'.op = "tick">>_vars)

\* C34: whenever the game is in a timed phase, ticks take it out of that
\* phase: a rotation completes, a freeze expires, a fall lands.
C34_NeverStuck ==
    \A p \in TimedPhases : (phase = p) ~> (phase # p)

\* the four timed phases have been entered and left: a fall that followed
\* the freeze of a bomb has ended
C34_Witness ==
    /\ last.op = "tick" /\ phase \notin TimedPhases
    /\ ~Has(power_left, "Bomb") /\ power_left.armed = Nil
    /\ board.new_elements > GameWidth * GameHeight
    /\ pending_bomb_params = None


(***************************************************************************)
(* C35: where the Ok markings are seen.                                    *)
(***************************************************************************)
\* the state is the one construction or a tick has left
AfterTick == last.op \in {"new", "tick"}

\* C35: after construction and after every tick, a cell is marked Ok only
\* while the phase is FreezeDuringZap or GameOver; and whenever the phase is
\* WaitingForInput the markings are those check_connections computes for the
\* grid as it is, and that check finds no zap.
C35_OkOnlyFrozen ==
    AfterTick =>
        /\ OkCells(board) > 0 => phase \in {"FreezeDuringZap", "GameOver"}
        /\ phase = "WaitingForInput" =>
              /\ CheckConnections(board).result = 0
              /\ CheckConnections(board).board.markings = board.markings

\* a zap has been played and its fall has ended: the game waits for input
\* on a board that has drawn new tiles, some of them marked Left or Right
C35_Witness ==
    /\ last.op = "tick" /\ phase = "WaitingForInput"
    /\ board.new_elements > GameWidth * GameHeight
    /\ \E c \in GameCells : GetMarking(board, c[1], c[2]) \in {"Left", "Right"}


(***************************************************************************)
(* C36: the scores.                                                        *)
(***************************************************************************)
\* C36: in Zen mode the two scores are equal in every state a game reaches
\* from its construction by ticks and taps, and in both modes no step
\* lowers a score.
C36_Scores ==
    /\ [](mode = "Zen" => left_score = right_score)
    /\ [][left_score' >= left_score /\ right_score' >= right_score]_vars

\* a Zen game has scored the pins of a zap and has collected a coin
C36_Witness ==
    /\ mode = "Zen" /\ last.op = "tick"
    /\ \E i \in DOMAIN score_popups : score_popups[i].side = 0
    /\ \E i \in DOMAIN score_popups : score_popups[i].side = 1
    /\ left_score > 0


(***************************************************************************)
(* C37: the grid is full.                                                  *)
(***************************************************************************)
\* C37: in every state of a game, after its creation and after any taps,
\* bot moves, Cross, zap removals and bomb or arrow clears, every cell of
\* the grid holds a tile, and the mask of the tile is in 0 .. 15.
C37_GridFull ==
    /\ Len(board.tiles) = GameWidth * GameHeight
    /\ \A c \in GameCells :
          /\ GridGet(board, c[1], c[2]) # EmptyCell
          /\ GridGet(board, c[1], c[2]) \in 0 .. 15

\* a bomb or an arrow has cleared tiles and the board has drawn new ones
C37_Witness ==
    /\ last.op = "tick"
    /\ ~Has(power_left, "Bomb") \/ ~Has(power_left, "Arrow")
    /\ board.new_elements > GameWidth * GameHeight
    /\ \A c \in GameCells : GridGet(board, c[1], c[2]) \in 1 .. 15


(***************************************************************************)
(* C38: which animations exist in which phase.                             *)
(***************************************************************************)
\* the animations a tick leaves fit the phase it leaves
AnimsFitPhase ==
    AfterTick =>
        /\ (anims.rotate_anims # <<>>) <=> (phase = "RotatingTile")
        /\ Len(anims.rotate_anims) <= 1
        /\ anims.fall_anims # <<>> => phase = "FallingTiles"
        /\ bonuses.falling # <<>> => phase = "FallingTiles"

\* the step is a tick that applies a tap
TickAppliesTap ==
    /\ last'.op = "tick" /\ phase = "WaitingForInput"
    /\ pending_tap # None /\ pending_tap' = None

\* the claim as the specification words it: after construction and after
\* every tick the rotation animations are non-empty iff the phase is
\* RotatingTile and are never more than one, a tap and a bot move are never
\* both applied in one tick, and fall animations and falling bonuses exist
\* only while the phase is FallingTiles
C38_TapOrBot ==
    /\ []AnimsFitPhase
    /\ [][TickAppliesTap => ~BotStarted(anims')]_vars

\* C38: after construction and after every tick the rotation animations
\* are non-empty iff the phase is RotatingTile and are never more than one;
\* a tap that rotates a tile and a bot move are never both applied in one
\* tick, the one animation is then the tap's; fall animations and falling
\* bonuses exist only while the phase is FallingTiles.
C38_Anims ==
    /\ []AnimsFitPhase
    /\ [][(TickAppliesTap /\ power_left.armed = Nil /\ power_right.armed = Nil)
             => /\ Len(anims'.rotate_anims) = 1
                /\ ~anims'.rotate_anims[1].is_bot
                /\ anims'.rotate_anims[1].x = pending_tap[1]
                /\ anims'.rotate_anims[1].y = pending_tap[2]]_vars

\* a tick has applied a tap while the bot was due to move: the one
\* animation is the tap's
C38_Witness ==
    /\ last.op = "tick" /\ phase = "RotatingTile"
    /\ bot_enabled /\ bot_delay_timer <= 0
    /\ Len(anims.rotate_anims) = 1 /\ ~anims.rotate_anims[1].is_bot
    /\ anims.rotate_anims[1].progress = 0


(***************************************************************************)
(* C39: what becomes of a queued tap.                                      *)
(***************************************************************************)
\* the tick that begins has applied the pending tap: it has spent the armed
\* power-up, or else has rotated the tapped tile
TapApplied ==
    /\ pending_tap' = None
    /\ IF power_left.armed # Nil
       THEN power_left'.armed = Nil /\ ~Has(power_left', power_left.armed)
       ELSE IF power_right.armed # Nil
       THEN power_right'.armed = Nil /\ ~Has(power_right', power_right.armed)
       ELSE /\ phase' = "RotatingTile"
            /\ anims'.rotate_anims
                  = <<RotateAnimNew(pending_tap[1], pending_tap[2], 1, FALSE)>>
            /\ board'.tiles = RotateAt(board, pending_tap[1], pending_tap[2]).tiles

\* C39: a pending tap is consumed only by a tick that starts in
\* WaitingForInput.  A tap queued while the phase is RotatingTile,
\* FallingTiles or a freeze stays pending, unchanged unless a later tap
\* overwrites it, through every tick that starts in such a phase, and the
\* first tick that starts in WaitingForInput applies it.
C39_TapWaits ==
    /\ [](pending_tap # None => pending_tap \in GameCells)
    /\ [][(pending_tap # None /\ pending_tap' # pending_tap)
             => \/ last'.op = "queue_tap"
                \/ last'.op = "tick" /\ phase = "WaitingForInput"]_vars
    /\ [][(last'.op = "tick" /\ phase = "WaitingForInput" /\ pending_tap # None)
             => TapApplied]_vars

\* a tap has stayed pending through a tick that began outside
\* WaitingForInput, and the game now waits for input with a tick to come
C39_Witness ==
    /\ last.op = "tick" /\ pending_tap # None
    /\ phase = "WaitingForInput"
    /\ calls.tick < MaxTicks


(***************************************************************************)
(* C40: the pins of the two sides.                                         *)
(***************************************************************************)
\* C40: after every check_connections, left_pins_connect > 0 iff
\* right_pins_connect > 0: a zap reported from the left pins has a connected
\* right pin, and there is no connected right pin unless the check has
\* returned 1.
C40_PinsBothSides ==
    last.op = "check_connections" =>
        /\ (board.left_pins_connect > 0) <=> (board.right_pins_connect > 0)
        /\ (board.right_pins_connect > 0) <=> (last.ret = 1)
        /\ last.ret \in {0, 1}

\* a check has found more connected pins on one side than on the other, on
\* a board more than one column wide
C40_Witness ==
    /\ last.op = "check_connections" /\ last.ret = 1
    /\ board.width > 1
    /\ board.left_pins_connect # board.right_pins_connect
====
